---- MODULE Spec2Model ----
(***************************************************************************)
(* Model of the dual-engine matching core of HAF_Search:                   *)
(*   src/src/vectorizer.rs    hashing n-gram text embedding                *)
(*   src/src/gpu.rs           tile dispatch and deferred tile handles      *)
(*   src/src/match_engine.rs  CPU engine wrapper and GPU orchestrator      *)
(*   src/src/matcher.rs       CPU matcher and its store transaction        *)
(*   src/src/database.rs      files / matches / file_vectors tables        *)
(*                                                                         *)
(* Texts are sequences of byte values.  A 64-bit DefaultHasher digest is   *)
(* modelled by the hashed tuple itself (no collisions inside the bounds).  *)
(* Similarities are exact cosines, floored to whole percents; thresholds   *)
(* are whole percents, so ">= threshold" is decided exactly.               *)
(***************************************************************************)
EXTENDS Integers, Sequences, FiniteSets, TLC

(***************************************************************************)
(* Program constants                                                       *)
(***************************************************************************)
VECTOR_SIZE == 512
NGRAM_LEN == 3
F32_BYTES == 4
DEFAULT_QUERY_CHUNK == 64
DEFAULT_FILE_CHUNK == 256
DEFAULT_INFLIGHT == 2
WORKGROUP_X == 8
WORKGROUP_Y == 8
CPU_CHUNK == 32

(***************************************************************************)
(* Bounds of the model                                                     *)
(***************************************************************************)
MaxTileIds == 3      \* SpecTiles: longest identifier list
MaxTileFiles == 3    \* SpecTiles: most files in the store
MaxEnvChunk == 2     \* largest value of a TIFF_GPU_* environment variable
MaxIds == 2          \* Spec, SpecCache: longest identifier list
MaxFiles == 2        \* Spec, SpecCache: file ids 1..MaxFiles can exist
MaxRuns == 2         \* SpecCache: match_and_store calls per behaviour
MaxEdits == 1
MaxTextLen == 4        \* SpecCache: changes of the files table per behaviour

\* Option values: None is the empty sequence, Some(v) is <<v>>
None == <<>>
Some(v) == <<v>>

(***************************************************************************)
(* Texts                                                                   *)
(***************************************************************************)
TxtA == <<97, 46, 116, 105, 102>>      \* "a.tif"
TxtB == <<98, 46, 116, 105, 102>>      \* "b.tif"

FileNames == {TxtA, TxtB}
HhIds == {TxtA, TxtB}
Thresholds == {50, 70, 100}

IsSpace(b) == b \in {9, 10, 11, 12, 13, 32}

ToLowerByte(b) == IF b >= 65 /\ b <= 90 THEN b + 32 ELSE b

RECURSIVE TrimStart(_)
TrimStart(s) ==
    IF s = <<>> THEN <<>>
    ELSE IF IsSpace(Head(s)) THEN TrimStart(Tail(s)) ELSE s

RECURSIVE TrimEnd(_)
TrimEnd(s) ==
    IF s = <<>> THEN <<>>
    ELSE IF IsSpace(s[Len(s)]) THEN TrimEnd(SubSeq(s, 1, Len(s) - 1)) ELSE s

Trim(s) == TrimEnd(TrimStart(s))

\* a normalize that trims and keeps the letter case
normalize_keeps_case(input) == Trim(input)

\* vectorizer.rs normalize: trim, then lowercase
normalize(input) == [i \in 1..Len(Trim(input)) |-> ToLowerByte(Trim(input)[i])]

\* vectorizer.rs hash_bytes: h <- h*31 + b, wrapping in 32 bits.  Only the
\* value modulo VECTOR_SIZE is used, and VECTOR_SIZE divides 2^32, so the
\* fold is carried modulo 2^16 (a multiple of VECTOR_SIZE) to stay inside
\* TLC's integers.
RECURSIVE hash_fold(_, _)
hash_fold(h, bytes) ==
    IF bytes = <<>> THEN h
    ELSE hash_fold((h * 31 + Head(bytes)) % 65536, Tail(bytes))

\* a hash kept in one byte
hash_bytes_u8(bytes) == hash_fold(0, bytes) % 256

hash_bytes(bytes) == hash_fold(0, bytes)

\* windows(NGRAM_LEN) alone: a string shorter than NGRAM_LEN has none
Windows_only(bytes) == [i \in 1..(Len(bytes) - NGRAM_LEN + 1) |-> SubSeq(bytes, i, i + NGRAM_LEN - 1)]

\* the windows(NGRAM_LEN) of a byte string, or the whole string when shorter
Windows(bytes) ==
    IF Len(bytes) < NGRAM_LEN THEN <<bytes>>
    ELSE [i \in 1..(Len(bytes) - NGRAM_LEN + 1) |-> SubSeq(bytes, i, i + NGRAM_LEN - 1)]

\* bucket counts before normalisation, on the buckets that were hit
Histogram(bytes) ==
    LET w == Windows(bytes)
        idx(i) == hash_bytes(w[i]) % VECTOR_SIZE
        hit == {idx(i) : i \in 1..Len(w)}
    IN [b \in hit |-> Cardinality({i \in 1..Len(w) : idx(i) = b})]

RECURSIVE Gcd(_, _)
Gcd(a, b) == IF b = 0 THEN a ELSE Gcd(b, a % b)

RECURSIVE GcdOf(_)
GcdOf(S) ==
    IF S = {} THEN 0
    ELSE LET x == CHOOSE y \in S : TRUE IN Gcd(x, GcdOf(S \ {x}))

\* vectorizer.rs normalize_vector: v / |v|.  The unit vector is represented
\* by the direction of the counts (counts divided by their gcd); the zero
\* vector is left unchanged.
normalize_vector(hist) ==
    IF DOMAIN hist = {} THEN hist
    ELSE LET g == GcdOf({hist[b] : b \in DOMAIN hist})
         IN [b \in DOMAIN hist |-> hist[b] \div g]

ZeroHist == [b \in {} |-> 0]

\* vectorizer.rs Vectorizer::encode.  A vector is its length and its
\* non-zero components.
encode(text) ==
    IF normalize(text) = <<>>
    THEN [len |-> VECTOR_SIZE, dir |-> ZeroHist]
    ELSE [len |-> VECTOR_SIZE, dir |-> normalize_vector(Histogram(normalize(text)))]

RECURSIVE SumOver(_, _)
SumOver(S, f) ==
    IF S = {} THEN 0
    ELSE LET x == CHOOSE y \in S : TRUE IN f[x] + SumOver(S \ {x}, f)

NormSq(v) == SumOver(DOMAIN v.dir, [b \in DOMAIN v.dir |-> v.dir[b] * v.dir[b]])

DotRaw(u, v) ==
    LET common == DOMAIN u.dir \cap DOMAIN v.dir
    IN SumOver(common, [b \in common |-> u.dir[b] * v.dir[b]])

\* gpu.rs SHADER: output[q*file_len+f] = sum_i queries[q*dim+i]*files[f*dim+i]
\* for unit vectors, in whole percents (floor).
ShaderScore(qv, fv) ==
    LET d == DotRaw(qv, fv)
        n == NormSq(qv) * NormSq(fv)
    IN IF d = 0 THEN 0
       ELSE CHOOSE s \in 0..100 :
              /\ s * s * n <= 10000 * d * d
              /\ (s = 100 \/ (s + 1) * (s + 1) * n > 10000 * d * d)

(***************************************************************************)
(* Sequences                                                               *)
(***************************************************************************)
Range(s) == {s[i] : i \in 1..Len(s)}

Max(a, b) == IF a >= b THEN a ELSE b
Min(a, b) == IF a <= b THEN a ELSE b

RECURSIVE LexLess(_, _)
LexLess(a, b) ==
    IF b = <<>> THEN FALSE
    ELSE IF a = <<>> THEN TRUE
    ELSE IF Head(a) # Head(b) THEN Head(a) < Head(b)
    ELSE LexLess(Tail(a), Tail(b))

\* every arrangement of a finite set as a sequence without repetition
Arrangements(S) ==
    {s \in [1..Cardinality(S) -> S] : \A i, j \in 1..Cardinality(S) : i # j => s[i] # s[j]}

\* slice::chunks(n): consecutive pieces of n elements, the last one shorter
RECURSIVE Chunks(_, _)
Chunks(s, n) ==
    IF s = <<>> THEN <<>>
    ELSE IF Len(s) <= n THEN <<s>>
    ELSE <<SubSeq(s, 1, n)>> \o Chunks(SubSeq(s, n + 1, Len(s)), n)

\* number of elements in the pieces before piece k
RECURSIVE StartOf(_, _)
StartOf(pieces, k) == IF k <= 1 THEN 0 ELSE Len(pieces[k - 1]) + StartOf(pieces, k - 1)

(***************************************************************************)
(* database.rs: tables are sets of rows                                    *)
(***************************************************************************)
\* FileImportSession::upsert_file: INSERT .. ON CONFLICT(file_path) DO UPDATE
\* SET file_name; a new path takes the next AUTOINCREMENT id.
upsert_file(files, next_id, file_path, file_name) ==
    IF \E r \in files : r.file_path = file_path
    THEN [files |-> {IF r.file_path = file_path
                     THEN [r EXCEPT !.file_name = file_name] ELSE r : r \in files},
          next_id |-> next_id]
    ELSE [files |-> files \cup {[id |-> next_id, file_path |-> file_path,
                                 file_name |-> file_name]},
          next_id |-> next_id + 1]

\* Database::get_all_files: SELECT .. ORDER BY file_name; rows with equal
\* names come back in an order the query does not fix.
get_all_files(files) ==
    {s \in Arrangements(files) :
        \A i, j \in 1..Len(s) : i < j => ~LexLess(s[j].file_name, s[i].file_name)}

\* a clear_all that deletes nothing
clear_all_nothing(matches) == matches

\* MatchImportSession::clear_all
clear_all(matches) == {}

\* a clear_for_ids whose DELETE has lost its WHERE clause
clear_for_ids_everything(matches, ids) ==
    IF ids = <<>> THEN matches ELSE {}

\* MatchImportSession::clear_for_ids
clear_for_ids(matches, ids) ==
    IF ids = <<>> THEN matches
    ELSE {r \in matches : r.hh_id \notin Range(ids)}

\* MatchImportSession::insert_match: INSERT .. ON CONFLICT(hh_id, file_id) DO
\* UPDATE SET similarity_score (unique index idx_matches_unique)
insert_match(matches, hh_id, file_id, similarity_score) ==
    {r \in matches : ~(r.hh_id = hh_id /\ r.file_id = file_id)}
        \cup {[hh_id |-> hh_id, file_id |-> file_id, similarity_score |-> similarity_score]}

\* the rows of a table that holds the set S, in the order of its id column
RECURSIVE RowsInOrder(_)
RowsInOrder(S) ==
    IF S = {} THEN <<>>
    ELSE LET r == CHOOSE x \in S : TRUE IN <<r>> \o RowsInOrder(S \ {r})

\* a plain INSERT into a table without the unique index idx_matches_unique
insert_match_row_plain(rows, hh_id, file_id, similarity_score) ==
    Append(rows, [hh_id |-> hh_id, file_id |-> file_id, similarity_score |-> similarity_score])

\* insert_match on the rows of the table: the unique index on (hh_id, file_id)
\* makes an existing pair a conflict, and DO UPDATE rewrites that row in place
insert_match_row(rows, hh_id, file_id, similarity_score) ==
    IF \E i \in 1..Len(rows) : rows[i].hh_id = hh_id /\ rows[i].file_id = file_id
    THEN [i \in 1..Len(rows) |->
             IF rows[i].hh_id = hh_id /\ rows[i].file_id = file_id
             THEN [rows[i] EXCEPT !.similarity_score = similarity_score]
             ELSE rows[i]]
    ELSE Append(rows, [hh_id |-> hh_id, file_id |-> file_id,
                       similarity_score |-> similarity_score])

\* DELETE FROM matches WHERE hh_id IN (ids), row by row
clear_rows_for_ids(rows, ids) ==
    IF ids = <<>> THEN rows
    ELSE SelectSeq(rows, LAMBDA r : r.hh_id \notin Range(ids))

\* bytemuck::cast_slice between f32 values and the stored blob
ToBlob(vec) == [bytes |-> vec.len * F32_BYTES, dir |-> vec.dir]
\* a cast that takes every byte for a float
FromBlob_bytes(blob) == [len |-> blob.bytes, dir |-> blob.dir]

FromBlob(blob) == [len |-> blob.bytes \div F32_BYTES, dir |-> blob.dir]

\* u64 and i64 of the fingerprint column, scaled to 30 bits
U64_MOD == 2^30

\* `fingerprint as i64` that clamps at i64::MAX
as_i64_saturating(u) == IF u >= U64_MOD \div 2 THEN U64_MOD \div 2 - 1 ELSE u

\* `fingerprint as i64`: the same bits read as two's complement
as_i64(u) == IF u >= U64_MOD \div 2 THEN u - U64_MOD ELSE u

\* `stored as u64`
as_u64(i) == IF i < 0 THEN i + U64_MOD ELSE i

\* Database::get_file_vector
get_file_vector(vectors, file_id, fingerprint) ==
    IF \E r \in vectors : r.file_id = file_id
    THEN LET row == CHOOSE r \in vectors : r.file_id = file_id
         IN IF as_u64(row.fingerprint) = fingerprint
            THEN IF row.vector_blob.bytes % F32_BYTES # 0 THEN None
                 ELSE Some(FromBlob(row.vector_blob))
            ELSE None
    ELSE None

\* Database::upsert_file_vector: INSERT .. ON CONFLICT(file_id) DO UPDATE
upsert_file_vector(vectors, file_id, fingerprint, data) ==
    {r \in vectors : r.file_id # file_id}
        \cup {[file_id |-> file_id, fingerprint |-> as_i64(fingerprint),
               vector_blob |-> ToBlob(data)]}

\* a cleanup that drops every cached vector
cleanup_orphan_vectors_all(vectors, files) == {}

\* Database::cleanup_orphan_vectors
cleanup_orphan_vectors(vectors, files) ==
    {r \in vectors : r.file_id \in {f.id : f \in files}}

(***************************************************************************)
(* match_engine.rs: GPU engine helpers                                     *)
(***************************************************************************)
\* match_engine.rs env_chunk: a set, parsable, positive value, else default
env_chunk(value, default) == IF value # None /\ value[1] > 0 THEN value[1] ELSE default

\* fingerprint_entry: DefaultHasher over (id, name), a u64.  The hash itself
\* is not computed here; it is stood for by a number of the scaled width that
\* differs for the ids below 8 and the names of the model
fingerprint_entry(id, name) == (id * 134217728 + hash_fold(0, name)) % U64_MOD

\* insertion of a pair into a sequence kept sorted by id
RECURSIVE InsertById(_, _)
InsertById(sorted, e) ==
    IF sorted = <<>> THEN <<e>>
    ELSE IF e[1] < Head(sorted)[1] THEN <<e>> \o sorted
    ELSE <<Head(sorted)>> \o InsertById(Tail(sorted), e)

RECURSIVE SortById(_)
SortById(files) ==
    IF files = <<>> THEN <<>> ELSE InsertById(SortById(Tail(files)), Head(files))

\* ensure_gpu_buffer, lines 258-268: DefaultHasher over the length and the
\* id-sorted (id, name) pairs
buffer_fingerprint(files) == <<Len(files), SortById(files)>>

\* GpuMatchEngine::encode_ids
encode_ids(ids) == [i \in 1..Len(ids) |-> encode(ids[i])]

\* GpuMatchEngine::prepare_cache from position i on; fail = <<k, call>> makes
\* that store call of file k fail; any other value lets every call succeed.
RECURSIVE prepare_cache_from(_, _, _, _, _)
prepare_cache_from(i, files, cache, vectors, fail) ==
    IF i > Len(files)
    THEN [ok |-> TRUE, error |-> "", file_vectors |-> cache, db_vectors |-> vectors]
    ELSE LET id == files[i][1]
             name == files[i][2]
             fingerprint == fingerprint_entry(id, name)
             cached == get_file_vector(vectors, id, fingerprint)
             encoded == encode(name)
         IN IF id \in DOMAIN cache
            THEN prepare_cache_from(i + 1, files, cache, vectors, fail)
            ELSE IF fail = <<i, "get">>
            THEN [ok |-> FALSE, error |-> "Failed to read cached vector",
                  file_vectors |-> cache, db_vectors |-> vectors]
            ELSE IF cached # None
            THEN prepare_cache_from(i + 1, files, (id :> cached[1]) @@ cache, vectors, fail)
            ELSE IF fail = <<i, "upsert">>
            THEN [ok |-> FALSE, error |-> "Failed to persist vector",
                  file_vectors |-> cache, db_vectors |-> vectors]
            ELSE prepare_cache_from(i + 1, files, (id :> encoded) @@ cache,
                                    upsert_file_vector(vectors, id, fingerprint, encoded), fail)

\* a prepare_cache that only fills
prepare_cache_no_retain(files, cache, vectors, fail) == prepare_cache_from(1, files, cache, vectors, fail)

\* GpuMatchEngine::prepare_cache: drop entries of ids that are gone, then fill
prepare_cache(files, cache, vectors, fail) ==
    LET valid_ids == {files[i][1] : i \in 1..Len(files)}
        retained == [id \in (DOMAIN cache) \cap valid_ids |-> cache[id]]
    IN prepare_cache_from(1, files, retained, vectors, fail)

\* GpuMatchEngine::gather_cached_vectors: the vectors in file order (an entry
\* missing from the cache is encoded on the fly and cached)
gather_cached_vectors(files, cache) ==
    [data |-> [i \in 1..Len(files) |->
                  IF files[i][1] \in DOMAIN cache THEN cache[files[i][1]]
                  ELSE encode(files[i][2])],
     file_vectors |-> [id \in (DOMAIN cache) \cup {files[i][1] : i \in 1..Len(files)} |->
                  IF id \in DOMAIN cache THEN cache[id]
                  ELSE encode((CHOOSE f \in Range(files) : f[1] = id)[2])]]

NoBuffer == None

\* an ensure_gpu_buffer that compares the file count only
ensure_gpu_buffer_count_only(files, cache, gpu_buffer) ==
    LET fingerprint == buffer_fingerprint(files)
        gathered == gather_cached_vectors(files, cache)
    IN IF gpu_buffer # NoBuffer /\ gpu_buffer[1].count = Len(files)
       THEN [file_gpu_buffer |-> gpu_buffer, file_vectors |-> cache, built |-> FALSE]
       ELSE [file_gpu_buffer |-> <<[buffer |-> gathered.data, count |-> Len(files),
                                    hash |-> fingerprint]>>,
             file_vectors |-> gathered.file_vectors, built |-> TRUE]

\* GpuMatchEngine::ensure_gpu_buffer: Some((buffer, count, hash)) is a
\* one-element sequence, None the empty one
ensure_gpu_buffer(files, cache, gpu_buffer) ==
    LET fingerprint == buffer_fingerprint(files)
        gathered == gather_cached_vectors(files, cache)
    IN IF gpu_buffer # NoBuffer
          /\ gpu_buffer[1].count = Len(files)
          /\ gpu_buffer[1].hash = fingerprint
       THEN [file_gpu_buffer |-> gpu_buffer, file_vectors |-> cache, built |-> FALSE]
       ELSE [file_gpu_buffer |-> <<[buffer |-> gathered.data, count |-> Len(files),
                                    hash |-> fingerprint]>>,
             file_vectors |-> gathered.file_vectors, built |-> TRUE]

\* a tile size that looks at the file binding only
file_chunk_size_for_files_only(query_count, file_chunk, max_storage_bytes) ==
    LET max_storage == Max(max_storage_bytes, VECTOR_SIZE * F32_BYTES)
    IN Max(Min(Max(file_chunk, 1), max_storage \div (VECTOR_SIZE * F32_BYTES)), 1)

\* GpuMatchEngine::file_chunk_size_for
file_chunk_size_for(query_count, file_chunk, max_storage_bytes) ==
    LET base == Max(file_chunk, 1)
        bytes_per_vector == VECTOR_SIZE * F32_BYTES
        max_storage == Max(max_storage_bytes, bytes_per_vector)
        file_limit == max_storage \div bytes_per_vector
        output_limit == IF query_count = 0 THEN max_storage
                        ELSE max_storage \div (query_count * F32_BYTES)
        adaptive == Max(Min(file_limit, output_limit), 1)
    IN IF query_count = 0 THEN base ELSE Max(Min(base, adaptive), 1)

\* a collect_matches whose comparison excludes the threshold itself
collect_matches_strict(hh_slice, file_slice, scores, min_similarity) ==
    LET file_len == Len(file_slice)
        hits == SelectSeq([k \in 1..(Len(hh_slice) * file_len) |-> k],
                          LAMBDA k : scores[k] > min_similarity)
    IN [n \in 1..Len(hits) |->
           [hh_id |-> hh_slice[((hits[n] - 1) \div file_len) + 1],
            file_id |-> file_slice[((hits[n] - 1) % file_len) + 1][1],
            similarity |-> scores[hits[n]]]]

\* a collect_matches that reads the scores column by column
collect_matches_transposed(hh_slice, file_slice, scores, min_similarity) ==
    LET file_len == Len(file_slice)
        cell(k) == scores[((k - 1) % file_len) * Len(hh_slice) + ((k - 1) \div file_len) + 1]
        hits == SelectSeq([k \in 1..(Len(hh_slice) * file_len) |-> k],
                          LAMBDA k : cell(k) >= min_similarity)
    IN [n \in 1..Len(hits) |->
           [hh_id |-> hh_slice[((hits[n] - 1) \div file_len) + 1],
            file_id |-> file_slice[((hits[n] - 1) % file_len) + 1][1],
            similarity |-> cell(hits[n])]]

\* GpuMatchEngine::collect_matches
collect_matches(hh_slice, file_slice, scores, min_similarity) ==
    LET file_len == Len(file_slice)
        cell(k) == scores[k]
        hits == SelectSeq([k \in 1..(Len(hh_slice) * file_len) |-> k],
                          LAMBDA k : cell(k) >= min_similarity)
    IN [n \in 1..Len(hits) |->
           [hh_id |-> hh_slice[((hits[n] - 1) \div file_len) + 1],
            file_id |-> file_slice[((hits[n] - 1) % file_len) + 1][1],
            similarity |-> cell(hits[n])]]

(***************************************************************************)
(* gpu.rs: SimilarityComputer                                              *)
(***************************************************************************)
\* wgpu::Buffer::size of a buffer made by create_file_buffer
BufferSize(buffer) == SumOver(DOMAIN buffer, [i \in DOMAIN buffer |-> buffer[i].len * F32_BYTES])

\* what the shader leaves in the staging buffer: cell q*file_len+f (from 0)
TileScores(query_vectors, buffer, file_offset, file_len) ==
    [k \in 1..(Len(query_vectors) * file_len) |->
        ShaderScore(query_vectors[((k - 1) \div file_len) + 1],
                    buffer[file_offset + ((k - 1) % file_len) + 1])]

Immediate(result) == [kind |-> "Immediate", result |-> result]

\* usize and u64 (64 bits) and u32 (32 bits), scaled to 30 and 28 bits for
\* the model checker's integers; as in the program, every storage ceiling
\* fits the narrower type
USIZE_MOD == 2^30
U32_MOD == 2^28

\* a * b in a machine word: the wrapped value and whether it overflowed
WrappingMul(a, b) ==
    [value |-> (a * b) % USIZE_MOD, overflow |-> a * b >= USIZE_MOD]

\* a + b in a machine word
WrappingAdd(a, b) ==
    [value |-> (a + b) % USIZE_MOD, overflow |-> a + b >= USIZE_MOD]

\* usize::checked_mul
checked_mul(a, b) ==
    IF b > 0 /\ a > (USIZE_MOD - 1) \div b THEN None ELSE Some(a * b)

\* `x as u32`
AsU32(x) == x % U32_MOD

\* what a dispatch did to the device
Untouched == [buffers_created |-> 0, submitted |-> FALSE, polled |-> FALSE,
              files_binding |-> None, params |-> None]

\* lines 272-367: query, output, staging and params buffers, the bind
\* group, one submitted command buffer, one poll
Submitted(offset, size, query_len, file_len, dim) ==
    [buffers_created |-> 4, submitted |-> TRUE, polled |-> TRUE,
     files_binding |-> Some([offset |-> offset, size |-> size]),
     params |-> Some([query_len |-> AsU32(query_len), file_len |-> AsU32(file_len),
                      dim |-> AsU32(dim)])]

\* a dispatch_tile without its zero-length guard
dispatch_is_empty_never(query_len, file_len) == FALSE

\* line 196: query_len == 0 || file_len == 0
dispatch_is_empty(query_len, file_len) == query_len = 0 \/ file_len = 0

\* SimilarityComputer::dispatch_tile and dispatch_tile_inner.  panics says
\* whether the device API panics inside the dispatch; overflow_checks says
\* whether the build panics on integer overflow or wraps.  catch_unwind turns
\* either panic into an error.  What the device computes from wrapped sizes
\* is left open: such a handle carries no scores.
dispatch_tile(query_vectors, query_len, buffer, file_offset, file_len, dim, max_storage, panics, overflow_checks) ==
    LET stride == WrappingMul(dim, F32_BYTES)
        stride_bytes == stride.value
        chunk == WrappingMul(file_len, stride_bytes)
        file_chunk_bytes == chunk.value
        offset == WrappingMul(file_offset, stride_bytes)
        file_offset_bytes == offset.value
        end == WrappingAdd(file_offset_bytes, file_chunk_bytes)
        floats == WrappingMul(query_len, file_len)
        output_floats == floats.value
        output_bytes == checked_mul(output_floats, F32_BYTES)
        wrapped == stride.overflow \/ chunk.overflow \/ offset.overflow \/ end.overflow
                       \/ floats.overflow
        failed(msg) == [ok |-> FALSE, error |-> msg, handle |-> Immediate(<<>>),
                        device |-> Untouched]
        done(h, dev) == [ok |-> TRUE, error |-> "", handle |-> h, device |-> dev]
    IN IF dispatch_is_empty(query_len, file_len) THEN done(Immediate(<<>>), Untouched)
       ELSE IF overflow_checks /\ (stride.overflow \/ chunk.overflow \/ offset.overflow)
       THEN failed("GPU dispatch panicked")
       ELSE IF file_chunk_bytes = 0 THEN done(Immediate(<<>>), Untouched)
       ELSE IF overflow_checks /\ end.overflow THEN failed("GPU dispatch panicked")
       ELSE IF end.value > BufferSize(buffer)
       THEN failed("Requested file chunk exceeds GPU buffer size")
       ELSE IF Len(query_vectors) = 0 THEN done(Immediate(<<>>), Untouched)
       ELSE IF overflow_checks /\ floats.overflow THEN failed("GPU dispatch panicked")
       ELSE IF output_bytes = None THEN failed("Output buffer size overflow")
       ELSE IF output_bytes[1] > max_storage
       THEN failed("Output buffer exceeds GPU limit")
       ELSE IF panics THEN failed("GPU dispatch panicked")
       ELSE done([kind |-> "Pending", output_bytes |-> output_bytes[1],
                  staging |-> IF wrapped THEN <<>>
                              ELSE TileScores(query_vectors, buffer, file_offset, file_len)],
                 Submitted(file_offset_bytes, file_chunk_bytes, query_len, file_len, dim))

\* GpuTileHandle::wait; mapped says whether the read-map of the staging
\* buffer succeeds
wait(handle, mapped) ==
    IF handle.kind = "Immediate"
    THEN [ok |-> TRUE, error |-> "", scores |-> handle.result, polled |-> FALSE]
    ELSE IF handle.output_bytes = 0
    THEN [ok |-> TRUE, error |-> "", scores |-> <<>>, polled |-> FALSE]
    ELSE IF mapped
    THEN [ok |-> TRUE, error |-> "", scores |-> handle.staging, polled |-> TRUE]
    ELSE [ok |-> FALSE, error |-> "Failed to map GPU buffer", scores |-> <<>>, polled |-> FALSE]

(***************************************************************************)
(* Store transactions                                                      *)
(***************************************************************************)
\* Database::start_match_import .. MatchImportSession::commit: the session's
\* statements act on a working copy that replaces the table at commit; a
\* session dropped before commit is rolled back.
\* statements that take effect as they run, with nothing to roll back
Transaction_autocommit(before, working, committed) == working

Transaction(before, working, committed) == IF committed THEN working ELSE before

RECURSIVE InsertAll(_, _)
InsertAll(matches, results) ==
    IF results = <<>> THEN matches
    ELSE InsertAll(insert_match(matches, Head(results).hh_id, Head(results).file_id,
                                Head(results).similarity),
                   Tail(results))

\* the points at which a match import over `results` can fail
StoreFailures(results) ==
    {<<"none", 0>>, <<"start", 0>>, <<"clear", 0>>, <<"commit", 0>>}
        \cup {<<"insert", k>> : k \in 1..Len(results)}

\* the statements of one match import that ran before the failure point
Statements(cleared, results, fail) ==
    IF fail[1] = "insert" THEN InsertAll(cleared, SubSeq(results, 1, fail[2] - 1))
    ELSE InsertAll(cleared, results)

RECURSIVE InsertAllRows(_, _)
InsertAllRows(rows, results) ==
    IF results = <<>> THEN rows
    ELSE InsertAllRows(insert_match_row(rows, Head(results).hh_id, Head(results).file_id,
                                        Head(results).similarity),
                       Tail(results))

\* a match import on the rows of the table: `cleared` is what its DELETE
\* leaves, and the import is rolled back unless it commits
store_rows(rows, cleared, results, fail) ==
    IF fail[1] \in {"start", "clear"} THEN rows
    ELSE Transaction(rows,
                     IF fail[1] = "insert"
                     THEN InsertAllRows(cleared, SubSeq(results, 1, fail[2] - 1))
                     ELSE InsertAllRows(cleared, results),
                     fail[1] = "none")

\* match_engine.rs lines 513-530: start_match_import, clear_for_ids, one
\* insert_match per result, commit
gpu_store(matches, ids, results, fail) ==
    IF fail[1] = "start"
    THEN [ok |-> FALSE, error |-> "Failed to start GPU match transaction", matches |-> matches]
    ELSE IF fail[1] = "clear"
    THEN [ok |-> FALSE, error |-> "Failed to clear previous matches",
          matches |-> Transaction(matches, matches, FALSE)]
    ELSE [ok |-> fail[1] = "none",
          error |-> IF fail[1] = "insert" THEN "Failed to store GPU match"
                    ELSE IF fail[1] = "commit" THEN "Failed to commit GPU matches" ELSE "",
          matches |-> Transaction(matches,
                                  Statements(clear_for_ids(matches, ids), results, fail),
                                  fail[1] = "none")]

\* matcher.rs lines 141-161: start_match_import, clear_all, one insert_match
\* per result, commit
cpu_store(matches, results, fail) ==
    IF fail[1] = "start"
    THEN [ok |-> FALSE, error |-> "Failed to start match transaction", matches |-> matches]
    ELSE IF fail[1] = "clear"
    THEN [ok |-> FALSE, error |-> "Failed to clear previous matches",
          matches |-> Transaction(matches, matches, FALSE)]
    ELSE [ok |-> fail[1] = "none",
          error |-> IF fail[1] = "insert" THEN "Failed to store match"
                    ELSE IF fail[1] = "commit" THEN "Failed to commit matches" ELSE "",
          matches |-> Transaction(matches,
                                  Statements(clear_all(matches), results, fail),
                                  fail[1] = "none")]

(***************************************************************************)
(* match_engine.rs: ProgressTracker.  The counters are usize and saturate;  *)
(* no count of the model comes near that width.                            *)
(***************************************************************************)
\* ProgressTracker::new
tracker_new(total_queries, total_files) ==
    [total_queries |-> total_queries, total_work |-> total_queries * total_files,
     completed_work |-> 0, total_tiles |-> 0, completed_tiles |-> 0]

\* ProgressTracker::register_tile
register_tile(t) == [t EXCEPT !.total_tiles = @ + 1]

\* a tile_complete that forgets the work of the earlier tiles
tile_complete_last(t, query_count, file_count) ==
    [t EXCEPT !.completed_tiles = @ + 1,
              !.completed_work = query_count * file_count]

\* ProgressTracker::tile_complete, up to its emit
tile_complete(t, query_count, file_count) ==
    [t EXCEPT !.completed_tiles = @ + 1,
              !.completed_work = @ + query_count * file_count]

\* ProgressTracker::finish, up to its emit
finish(t) == [t EXCEPT !.completed_work = t.total_work]

\* the least integer not below a / b, for a >= 0 and b > 0
CeilDiv(a, b) == (a + b - 1) \div b

\* ProgressTracker::emit: the (completed, total) pair handed to the callback,
\* ceil(clamp(completed_work / total_work, 0, 1) * total_queries) capped at
\* total_queries
emit(t) ==
    LET mapped == IF t.total_work = 0 THEN t.total_queries
                  ELSE CeilDiv(Min(t.completed_work, t.total_work) * t.total_queries,
                               t.total_work)
    IN <<Min(mapped, t.total_queries), t.total_queries>>

\* a callback that is never called
Call_dropped(calls, callback, pair) == calls

\* a call of the callback, if there is one
Call(calls, callback, pair) == IF callback = "none" THEN calls ELSE Append(calls, pair)

(***************************************************************************)
(* State                                                                   *)
(***************************************************************************)
VARIABLES
    env,               \* TIFF_GPU_QUERY_CHUNK / _FILE_CHUNK / _INFLIGHT as read at construction
    chunk_size,        \* GpuMatchEngine.chunk_size
    file_chunk_size,   \* GpuMatchEngine.file_chunk_size
    inflight_limit,    \* GpuMatchEngine.inflight_limit
    max_storage_bytes, \* SimilarityComputer.max_storage_bytes
    call,              \* a direct dispatch_tile call on the computer: request, reply, wait
    worker,            \* the background thread of start_matching and what it has sent
    encoded,           \* direct calls of Vectorizer::encode: text and returned vector
    scored,            \* a direct call of the CPU matcher's scoring: arguments and result
    poller,            \* SimilarityComputer._poller, its thread, and the device's map requests
    pool,              \* the chunks of Matcher::match_ids on the rayon workers, and `processed`
    vcalls,            \* direct calls of upsert_file_vector and get_file_vector, in order
    app,               \* the front-end: AppState, the operation running and its channel
    loader,            \* table reference_ids and a call of the reference loader
    file_vectors,      \* GpuMatchEngine.file_vectors: file id -> vector
    file_gpu_buffer,   \* GpuMatchEngine.file_gpu_buffer
    db_files,          \* table files
    db_next_id,        \* AUTOINCREMENT counter of table files
    db_matches,        \* table matches: the set of (hh_id, file_id, similarity_score) held
    db_match_rows,     \* table matches row by row, in the order of its id column
    db_vectors,        \* table file_vectors
    pc,                \* position of the running match_and_store
    kind,              \* engine of the running match_and_store
    hh_ids,            \* its identifier list
    min_similarity,    \* its threshold
    file_pairs,        \* its (id, name) list
    chunk_no,          \* index of the query chunk being dispatched
    tile_no,           \* index of the file chunk being dispatched
    pending,           \* VecDeque<PendingTile>
    all_matches,       \* matches collected so far
    result,            \* what match_and_store returned
    progress,          \* its progress callback: the caller's, the logging one, or none
    tracker,           \* its ProgressTracker
    sink,              \* the (completed, total) calls the callback received, in order
    dispatched,        \* history: the tiles dispatched in this run, in order
    resolved,          \* history: the tiles waited on in this run, in order
    db0,               \* history: the store when the run began
    tag0,              \* history: the device buffer's tag when the run began
    built,             \* history: this run called create_file_buffer
    panicked,          \* history: a dispatch of this engine has panicked
    runs,              \* history: match_and_store calls so far
    edits              \* history: changes of the files table so far

config_vars == <<env, chunk_size, file_chunk_size, inflight_limit, max_storage_bytes>>
side_vars == <<pool, vcalls, app, loader>>
engine_vars == <<config_vars, side_vars, call, worker, encoded, scored, poller>>
cache_vars == <<file_vectors, file_gpu_buffer>>
db_vars == <<db_files, db_next_id, db_matches, db_match_rows, db_vectors>>
loop_vars == <<chunk_no, tile_no, pending, all_matches, dispatched, resolved>>
run_vars == <<kind, hh_ids, min_similarity, file_pairs, db0, tag0, built>>
progress_vars == <<progress, tracker, sink>>
vars == <<engine_vars, cache_vars, db_vars, loop_vars, run_vars, progress_vars, pc, result,
          panicked, runs, edits>>

NoResult == [ok |-> FALSE, count |-> 0, error |-> "no result"]
Ok(n) == [ok |-> TRUE, count |-> n, error |-> ""]
Err(msg) == [ok |-> FALSE, count |-> 0, error |-> msg]

EnvValues == {None} \cup {Some(n) : n \in 0..MaxEnvChunk}

\* TiffLocatorApp::default: Idle, no path chosen, the counts read from
\* cache.db (zero when it cannot be opened), no thread spawned, nothing on the
\* channel.  Paths and the search input are kept as "is not empty"; the
\* progress bar and the status and error texts are left out
AppDefault(db_ok, reference_id_count, file_count) ==
    [state |-> "Idle", db |-> db_ok,
     folder_path |-> FALSE, csv_path |-> FALSE, search_input |-> FALSE,
     reference_id_count |-> IF db_ok THEN reference_id_count ELSE 0,
     file_count |-> IF db_ok THEN file_count ELSE 0,
     use_gpu_matcher |-> FALSE, gpu_available |-> TRUE,
     threads |-> <<>>, channel |-> <<>>]

\* TiffLocatorApp::new over an empty cache.db
AppNew == AppDefault(TRUE, 0, 0)

\* an empty reference_ids table and no call of the loader.  tx is the table
\* as the open transaction sees it, rows the records of the file not yet
\* read, before the table when the call began
LoaderNew ==
    [reference_ids |-> {}, tx |-> {}, pc |-> "idle", rows |-> <<>>, file |-> <<>>,
     processed |-> 0, inserted |-> 0, skipped |-> 0, errors |-> <<>>, line_index |-> 0,
     report |-> <<>>, before |-> {}, loads |-> 0]

\* no match_ids is running
NoPool == [state |-> <<>>, completed |-> <<>>, processed |-> 0, best |-> <<>>, files |-> <<>>]

\* GpuMatchEngine::new
\* DevicePoller::start: the flag is set and the thread spawned; a failed spawn
\* is dropped by .ok() and leaves no thread.  `visible` is the value of the
\* flag a Relaxed load on the poller thread returns; done, mapping and fired
\* are the device's side: tiles whose commands completed, map requests
\* waiting for a poll, and the callbacks fired so far.
DevicePoller_start(spawned) ==
    [active |-> TRUE, visible |-> TRUE,
     handle |-> IF spawned THEN "some" ELSE "none",
     thread |-> IF spawned THEN "load" ELSE "none",
     owner |-> "alive", polled |-> FALSE,
     done |-> {}, mapping |-> {}, fired |-> <<>>]

\* GpuMatchEngine::new over SimilarityComputer::new; spawned says whether the
\* poller thread could be started
EngineParts(e, storage, spawned) ==
    /\ poller = DevicePoller_start(spawned)
    /\ pool = NoPool
    /\ vcalls = <<>>
    /\ loader = LoaderNew
    /\ env = e
    /\ chunk_size = env_chunk(e.query_chunk, DEFAULT_QUERY_CHUNK)
    /\ file_chunk_size = env_chunk(e.file_chunk, DEFAULT_FILE_CHUNK)
    /\ inflight_limit = Max(env_chunk(e.inflight, DEFAULT_INFLIGHT), 1)
    /\ max_storage_bytes = storage
    /\ call = None
    /\ encoded = <<>>
    /\ scored = None
    /\ worker = [stage |-> "idle", desired |-> "none", attempts |-> <<>>, engine |-> None,
                 ids |-> <<>>, before |-> <<>>, after |-> <<>>]
    /\ panicked = FALSE
    /\ file_vectors = <<>>
    /\ file_gpu_buffer = NoBuffer

\* the engine next to a front-end that has just been constructed
EngineWith(e, storage, spawned) == EngineParts(e, storage, spawned) /\ app = AppNew

EngineNew(e, storage) == EngineWith(e, storage, TRUE)

Snapshot == [files |-> db_files, matches |-> db_matches, vectors |-> db_vectors]

BufferTag(b) == IF b = NoBuffer THEN None ELSE Some(<<b[1].count, b[1].hash>>)

IdleRun ==
    /\ pc = "idle"
    /\ kind = "none"
    /\ hh_ids = <<>>
    /\ min_similarity = 0
    /\ file_pairs = <<>>
    /\ chunk_no = 0
    /\ tile_no = 0
    /\ pending = <<>>
    /\ all_matches = <<>>
    /\ result = NoResult
    /\ progress = "none"
    /\ tracker = tracker_new(0, 0)
    /\ sink = <<>>
    /\ dispatched = <<>>
    /\ resolved = <<>>
    /\ db0 = [files |-> {}, matches |-> {}, vectors |-> {}]
    /\ tag0 = None
    /\ built = FALSE

\* the files table after scanning paths 1..m with the given names
RECURSIVE Scanned(_, _)
Scanned(m, names) ==
    IF m = 0 THEN [files |-> {}, next_id |-> 1]
    ELSE LET prev == Scanned(m - 1, names)
         IN upsert_file(prev.files, prev.next_id, m, names[m])

(***************************************************************************)
(* GPU engine: match_and_store, one action per step of the run             *)
(***************************************************************************)
Returns(res) == pc' = "returned" /\ result' = res

BeginFailures(n) ==
    {<<0, "none">>, <<0, "load">>, <<0, "cleanup">>}
        \cup {<<k, "get">> : k \in 1..n} \cup {<<k, "upsert">> : k \in 1..n}

\* match_engine.rs lines 403-459: load the files, the early returns, the
\* cache refresh and the device buffer
GpuBegin(ids, threshold, with_callback, max_runs) ==
    /\ pc = "idle"
    /\ runs < max_runs
    /\ \E files \in get_all_files(db_files), fail \in BeginFailures(Cardinality(db_files)) :
        LET pairs == [i \in 1..Len(files) |-> <<files[i].id, files[i].file_name>>]
            cleaned == cleanup_orphan_vectors(db_vectors, db_files)
            prep == prepare_cache(pairs, file_vectors, cleaned, fail)
            ens == ensure_gpu_buffer(pairs, prep.file_vectors, file_gpu_buffer)
            given == IF with_callback THEN "caller" ELSE "none"
            used == IF with_callback THEN "caller" ELSE "logging"
            started == Call(<<>>, used, <<0, Len(ids)>>)
        IN /\ runs' = runs + 1
           /\ kind' = "Gpu"
           /\ hh_ids' = ids
           /\ min_similarity' = threshold
           /\ db0' = Snapshot
           /\ tag0' = BufferTag(file_gpu_buffer)
           /\ UNCHANGED <<engine_vars, db_files, db_next_id, db_matches, db_match_rows, edits, panicked,
                          pending, all_matches, dispatched, resolved>>
           /\ IF fail[2] = "load"
              THEN /\ Returns(Err("Failed to load files for GPU matcher"))
                   /\ file_pairs' = <<>>
                   /\ progress' = given /\ sink' = <<>>
                   /\ UNCHANGED <<cache_vars, db_vectors, chunk_no, tile_no, built, tracker>>
              ELSE IF files = <<>>
              THEN /\ Returns(Err("No files found in database"))
                   /\ file_pairs' = <<>>
                   /\ progress' = given /\ sink' = <<>>
                   /\ UNCHANGED <<cache_vars, db_vectors, chunk_no, tile_no, built, tracker>>
              ELSE IF ids = <<>>
              THEN /\ Returns(Ok(0))
                   /\ file_pairs' = <<>>
                   /\ progress' = given /\ sink' = Call(<<>>, given, <<0, 0>>)
                   /\ UNCHANGED <<cache_vars, db_vectors, chunk_no, tile_no, built, tracker>>
              ELSE IF fail[2] = "cleanup"
              THEN /\ Returns(Err("Failed to clean vector cache"))
                   /\ file_pairs' = pairs
                   /\ progress' = used /\ sink' = started
                   /\ UNCHANGED <<cache_vars, db_vectors, chunk_no, tile_no, built, tracker>>
              ELSE IF ~prep.ok
              THEN /\ Returns(Err(prep.error))
                   /\ file_pairs' = pairs
                   /\ file_vectors' = prep.file_vectors
                   /\ db_vectors' = prep.db_vectors
                   /\ progress' = used /\ sink' = started
                   /\ UNCHANGED <<file_gpu_buffer, chunk_no, tile_no, built, tracker>>
              ELSE /\ pc' = "dispatch"
                   /\ file_pairs' = pairs
                   /\ file_vectors' = ens.file_vectors
                   /\ file_gpu_buffer' = ens.file_gpu_buffer
                   /\ built' = ens.built
                   /\ db_vectors' = prep.db_vectors
                   /\ chunk_no' = 1
                   /\ tile_no' = 1
                   /\ progress' = used /\ sink' = started
                   /\ tracker' = tracker_new(Len(ids), Max(Len(pairs), 1))
                   /\ UNCHANGED result

\* line 461: hh_ids.chunks(self.chunk_size.max(1))
QueryChunks == Chunks(hh_ids, Max(chunk_size, 1))

\* line 466
ChunkFileSize(c) ==
    file_chunk_size_for(Len(QueryChunks[c]), file_chunk_size, max_storage_bytes)

\* line 468: file_pairs.chunks(chunk_file_size)
FileChunks(c) == Chunks(file_pairs, ChunkFileSize(c))

\* a file offset that counts the tile index from 1
tile_offset_one_based(tile_index, chunk_file_size) == (tile_index + 1) * chunk_file_size

\* line 472: file_offset = tile_index * chunk_file_size (tile_index from 0)
tile_offset(tile_index, chunk_file_size) == tile_index * chunk_file_size

\* a throttle that waits until the limit is exceeded
must_throttle_late(queue, limit) == Len(queue) > limit

\* a throttle that waits as soon as anything is pending
must_throttle_eager(queue, limit) == Len(queue) >= 1

\* line 489: the queue has reached the in-flight limit
must_throttle(queue, limit) == Len(queue) >= limit

\* a final drain that stops one tile early
drain_done_early(queue) == Len(queue) <= 1

\* line 501: while !pending.is_empty()
drain_done(queue) == queue = <<>>

\* a finish_next_tile that takes the newest tile: pop_back for pop_front
finish_next_tile_lifo(queue, matches, threshold, mapped) ==
    IF queue = <<>>
    THEN [ok |-> TRUE, error |-> "", pending |-> queue, all_matches |-> matches,
          waited |-> <<>>]
    ELSE LET tile == queue[Len(queue)]
             w == wait(tile.handle, mapped)
         IN IF ~w.ok
            THEN [ok |-> FALSE, error |-> w.error, pending |-> SubSeq(queue, 1, Len(queue) - 1),
                  all_matches |-> matches, waited |-> <<tile.tid>>]
            ELSE [ok |-> TRUE, error |-> "", pending |-> SubSeq(queue, 1, Len(queue) - 1),
                  all_matches |-> matches \o collect_matches(tile.hh_slice, tile.file_slice,
                                                             w.scores, threshold),
                  waited |-> <<tile.tid>>]

\* GpuMatchEngine::finish_next_tile
finish_next_tile(queue, matches, threshold, mapped) ==
    IF queue = <<>>
    THEN [ok |-> TRUE, error |-> "", pending |-> queue, all_matches |-> matches,
          waited |-> <<>>]
    ELSE LET tile == Head(queue)
             w == wait(tile.handle, mapped)
         IN IF ~w.ok
            THEN [ok |-> FALSE, error |-> w.error, pending |-> Tail(queue),
                  all_matches |-> matches, waited |-> <<tile.tid>>]
            ELSE [ok |-> TRUE, error |-> "", pending |-> Tail(queue),
                  all_matches |-> matches \o collect_matches(tile.hh_slice, tile.file_slice,
                                                             w.scores, threshold),
                  waited |-> <<tile.tid>>]

LoopDone == chunk_no > Len(QueryChunks)

\* line 316: the tracker after the tile that finish_next_tile waited on
Completed(f) ==
    IF f.ok /\ f.waited # <<>>
    THEN tile_complete(tracker, dispatched[f.waited[1]].q_len, dispatched[f.waited[1]].f_len)
    ELSE tracker

\* lines 468-488: dispatch the next tile and enqueue its handle
GpuDispatch ==
    /\ pc = "dispatch"
    /\ LET chunk == QueryChunks[chunk_no]
           chunk_vectors == encode_ids(chunk)
           chunk_file_size == ChunkFileSize(chunk_no)
           file_chunks == FileChunks(chunk_no)
           file_chunk == file_chunks[tile_no]
           file_offset == tile_offset(tile_no - 1, chunk_file_size)
       IN \E panics \in BOOLEAN, overflow_checks \in BOOLEAN :
        LET d == dispatch_tile(chunk_vectors, Len(chunk), file_gpu_buffer[1].buffer,
                               file_offset, Len(file_chunk), VECTOR_SIZE,
                               max_storage_bytes, panics, overflow_checks)
            tile == [hh_slice |-> chunk, file_slice |-> file_chunk, handle |-> d.handle,
                     tid |-> Len(dispatched) + 1]
            last_tile == tile_no = Len(file_chunks)
            last_chunk == chunk_no = Len(QueryChunks)
        IN /\ IF ~d.ok
              THEN /\ Returns(Err(d.error))
                   /\ UNCHANGED <<loop_vars, tracker>>
              ELSE /\ pending' = Append(pending, tile)
                   /\ tracker' = register_tile(tracker)
                   /\ dispatched' = Append(dispatched,
                           [q_start |-> StartOf(QueryChunks, chunk_no), q_len |-> Len(chunk),
                            f_start |-> StartOf(file_chunks, tile_no), f_len |-> Len(file_chunk),
                            file_offset |-> file_offset])
                   /\ tile_no' = IF last_tile THEN 1 ELSE tile_no + 1
                   /\ chunk_no' = IF last_tile THEN chunk_no + 1 ELSE chunk_no
                   /\ pc' = IF must_throttle(Append(pending, tile), inflight_limit) THEN "throttle"
                            ELSE IF last_tile /\ last_chunk THEN "drain"
                            ELSE "dispatch"
                   /\ UNCHANGED <<all_matches, resolved, result>>
           /\ panicked' = (panicked \/ d.error = "GPU dispatch panicked")
    /\ UNCHANGED <<engine_vars, cache_vars, db_vars, run_vars, runs, edits, progress, sink>>

\* lines 489-497: the queue is full, resolve the oldest tile
GpuThrottle ==
    /\ pc = "throttle"
    /\ \E mapped \in BOOLEAN :
        LET f == finish_next_tile(pending, all_matches, min_similarity, mapped)
        IN /\ pending' = f.pending
           /\ all_matches' = f.all_matches
           /\ resolved' = resolved \o f.waited
           /\ tracker' = Completed(f)
           /\ sink' = IF f.ok /\ f.waited # <<>> THEN Call(sink, progress, emit(Completed(f)))
                      ELSE sink
           /\ IF ~f.ok THEN Returns(Err(f.error))
              ELSE /\ pc' = IF LoopDone THEN "drain" ELSE "dispatch"
                   /\ UNCHANGED result
    /\ UNCHANGED <<engine_vars, cache_vars, db_vars, run_vars, runs, edits,
                   chunk_no, tile_no, dispatched, progress, panicked>>

\* lines 501-509: resolve what is still pending
GpuDrain ==
    /\ pc = "drain"
    /\ ~drain_done(pending)
    /\ \E mapped \in BOOLEAN :
        LET f == finish_next_tile(pending, all_matches, min_similarity, mapped)
        IN /\ pending' = f.pending
           /\ all_matches' = f.all_matches
           /\ resolved' = resolved \o f.waited
           /\ tracker' = Completed(f)
           /\ sink' = IF f.ok /\ f.waited # <<>> THEN Call(sink, progress, emit(Completed(f)))
                      ELSE sink
           /\ IF ~f.ok THEN Returns(Err(f.error)) ELSE UNCHANGED <<pc, result>>
    /\ UNCHANGED <<engine_vars, cache_vars, db_vars, run_vars, runs, edits,
                   chunk_no, tile_no, dispatched, progress, panicked>>

\* lines 511-538: the match import and the return value
GpuStore ==
    /\ pc = "drain"
    /\ drain_done(pending)
    /\ \E fail \in StoreFailures(all_matches) :
        LET st == gpu_store(db_matches, hh_ids, all_matches, fail)
        IN /\ db_matches' = st.matches
           /\ db_match_rows' = store_rows(db_match_rows,
                                          clear_rows_for_ids(db_match_rows, hh_ids),
                                          all_matches, fail)
           /\ Returns(IF st.ok THEN Ok(Len(all_matches)) ELSE Err(st.error))
    /\ tracker' = finish(tracker)
    /\ sink' = Call(sink, progress, emit(finish(tracker)))
    /\ UNCHANGED <<progress, panicked>>
    /\ UNCHANGED <<engine_vars, cache_vars, db_files, db_next_id, db_vectors, loop_vars,
                   run_vars, runs, edits>>

(***************************************************************************)
(* CPU engine                                                              *)
(***************************************************************************)
CpuScores == {0, 80}

\* Matcher::match_ids.  The scores of the external fuzzy matcher are not
\* fixed by this repository: best[id, file] is any value it can give.
match_ids(ids, files, threshold, best) ==
    LET m == Len(files)
        hits == SelectSeq([k \in 1..(Len(ids) * m) |-> k],
                          LAMBDA k : LET id == ids[((k - 1) \div m) + 1]
                                         file == files[((k - 1) % m) + 1]
                                     IN Trim(id) # <<>> /\ best[id, file.id] >= threshold)
    IN [n \in 1..Len(hits) |->
           [hh_id |-> ids[((hits[n] - 1) \div m) + 1],
            file_id |-> files[((hits[n] - 1) % m) + 1].id,
            similarity |-> best[ids[((hits[n] - 1) \div m) + 1],
                                files[((hits[n] - 1) % m) + 1].id]]]

\* CpuMatchEngine::match_and_store around Matcher::match_and_store; the
\* matches found are kept in all_matches
\* matcher.rs lines 94-112: every chunk adds its length to `processed` and
\* then calls the callback with the sum it got.  fetch[i] is the chunk whose
\* fetch_add was the i-th, deliver[k] the rank of the fetch_add behind the
\* k-th call the callback received; every chunk but the last holds
\* CPU_CHUNK identifiers
cpu_chunk_calls(ids, fetch, deliver) ==
    LET n == Len(ids)
        K == Len(Chunks(ids, CPU_CHUNK))
        counted(j) == j * CPU_CHUNK
                        - (IF \E i \in 1..j : fetch[i] = K THEN K * CPU_CHUNK - n ELSE 0)
    IN [k \in 1..K |-> <<Min(counted(deliver[k]), n), n>>]

CpuRun(ids, threshold, with_callback, max_runs) ==
    /\ pc = "idle"
    /\ runs < max_runs
    /\ runs' = runs + 1
    /\ kind' = "Cpu"
    /\ hh_ids' = ids
    /\ min_similarity' = threshold
    /\ db0' = Snapshot
    /\ file_pairs' = <<>>
    /\ UNCHANGED <<engine_vars, cache_vars, db_files, db_next_id, db_vectors, chunk_no,
                   tile_no, pending, dispatched, resolved, tag0, built, edits, tracker,
                   panicked>>
    /\ progress' = IF with_callback THEN "caller" ELSE IF ids # <<>> THEN "logging" ELSE "none"
    /\ \E files \in get_all_files(db_files), load_fails \in BOOLEAN,
          best \in [Range(ids) \X {f.id : f \in db_files} -> CpuScores] :
        LET found == match_ids(ids, files, threshold, best)
            started == Call(<<>>, progress', <<0, Len(ids)>>)
        IN IF ids = <<>>
           THEN Returns(Ok(0)) /\ sink' = started /\ UNCHANGED <<db_matches, db_match_rows, all_matches>>
           ELSE IF load_fails
           THEN /\ Returns(Err("Failed to get files from database"))
                /\ sink' = started
                /\ UNCHANGED <<db_matches, db_match_rows, all_matches>>
           ELSE IF files = <<>>
           THEN /\ Returns(Err("No files found in database"))
                /\ sink' = started
                /\ UNCHANGED <<db_matches, db_match_rows, all_matches>>
           ELSE /\ all_matches' = found
                /\ \E fetch, deliver \in Permutations(1..Len(Chunks(ids, CPU_CHUNK))) :
                       sink' = started \o cpu_chunk_calls(ids, fetch, deliver)
                /\ \E fail \in StoreFailures(found) :
                    LET st == cpu_store(db_matches, found, fail)
                    IN /\ db_matches' = st.matches
                       /\ db_match_rows' = store_rows(db_match_rows, <<>>, found, fail)
                       /\ Returns(IF st.ok THEN Ok(Len(found)) ELSE Err(st.error))

\* Searcher::search_single_id: the files whose score reaches the threshold,
\* the highest score first (a stable sort of the files in table order)
RECURSIVE SortByScore(_)
SortByScore(results) ==
    IF results = <<>> THEN <<>>
    ELSE LET top == CHOOSE i \in 1..Len(results) :
                        /\ \A j \in 1..Len(results) :
                               results[j].similarity <= results[i].similarity
                        /\ \A j \in 1..(i - 1) :
                               results[j].similarity < results[i].similarity
         IN <<results[top]>>
                \o SortByScore([k \in 1..(Len(results) - 1) |->
                                    IF k < top THEN results[k] ELSE results[k + 1]])

search_single_id(hh_id, files, threshold, best) ==
    SortByScore(SelectSeq([k \in 1..Len(files) |->
                              [hh_id |-> hh_id, file_id |-> files[k].id,
                               similarity |-> best[files[k].id]]],
                          LAMBDA r : r.similarity >= threshold))

\* the points at which Searcher::store_results can fail
SearchFailures(results) ==
    {<<"none", 0>>, <<"clear", 0>>} \cup {<<"insert", k>> : k \in 1..Len(results)}

\* gui.rs lines 383-391: a single-identifier search followed by
\* Searcher::store_results, which clears the identifier's rows and inserts one
\* row per result, each statement committed on its own
SearchStore(hh_id, threshold, max_runs) ==
    /\ pc = "idle"
    /\ runs < max_runs
    /\ runs' = runs + 1
    /\ \E files \in get_all_files(db_files),
          best \in [{f.id : f \in db_files} -> CpuScores] :
        LET results == search_single_id(hh_id, files, threshold, best)
        IN \E fail \in SearchFailures(results) :
            IF fail[1] = "clear"
            THEN UNCHANGED <<db_matches, db_match_rows>>
            ELSE /\ db_matches' = Statements(clear_for_ids(db_matches, <<hh_id>>),
                                             results, fail)
                 /\ db_match_rows' =
                        IF fail[1] = "insert"
                        THEN InsertAllRows(clear_rows_for_ids(db_match_rows, <<hh_id>>),
                                           SubSeq(results, 1, fail[2] - 1))
                        ELSE InsertAllRows(clear_rows_for_ids(db_match_rows, <<hh_id>>),
                                           results)
    /\ UNCHANGED <<engine_vars, cache_vars, db_files, db_next_id, db_vectors, loop_vars,
                   run_vars, progress_vars, pc, result, edits, panicked>>

\* a return that leaves the tiles of the aborted run in the queue
Return_keeps_queue ==
    /\ pc = "returned"
    /\ pc' = "idle"
    /\ kind' = "none"
    /\ hh_ids' = <<>>
    /\ min_similarity' = 0
    /\ file_pairs' = <<>>
    /\ chunk_no' = 0
    /\ tile_no' = 0
    /\ all_matches' = <<>>
    /\ result' = NoResult
    /\ progress' = "none"
    /\ tracker' = tracker_new(0, 0)
    /\ sink' = <<>>
    /\ dispatched' = <<>>
    /\ resolved' = <<>>
    /\ db0' = [files |-> {}, matches |-> {}, vectors |-> {}]
    /\ tag0' = None
    /\ built' = FALSE
    /\ UNCHANGED <<engine_vars, cache_vars, db_vars, runs, edits, panicked, pending>>

\* the caller takes the result; the run's locals are gone
Return ==
    /\ pc = "returned"
    /\ pc' = "idle"
    /\ kind' = "none"
    /\ hh_ids' = <<>>
    /\ min_similarity' = 0
    /\ file_pairs' = <<>>
    /\ chunk_no' = 0
    /\ tile_no' = 0
    /\ pending' = <<>>
    /\ all_matches' = <<>>
    /\ result' = NoResult
    /\ progress' = "none"
    /\ tracker' = tracker_new(0, 0)
    /\ sink' = <<>>
    /\ dispatched' = <<>>
    /\ resolved' = <<>>
    /\ db0' = [files |-> {}, matches |-> {}, vectors |-> {}]
    /\ tag0' = None
    /\ built' = FALSE
    /\ UNCHANGED <<engine_vars, cache_vars, db_vars, runs, edits, panicked>>

(***************************************************************************)
(* The files table changes between runs                                    *)
(***************************************************************************)
\* a scan stores a file: FileImportSession::upsert_file and commit
UpsertFile(file_path, file_name, max_edits) ==
    /\ pc = "idle"
    /\ edits < max_edits
    /\ (\E r \in db_files : r.file_path = file_path) \/ db_next_id <= MaxFiles
    /\ LET up == upsert_file(db_files, db_next_id, file_path, file_name)
       IN /\ db_files' = up.files
          /\ db_next_id' = up.next_id
    /\ edits' = edits + 1
    /\ UNCHANGED <<engine_vars, cache_vars, db_matches, db_match_rows, db_vectors, loop_vars, run_vars,
                   progress_vars, panicked,
                   pc, result, runs>>

\* Database::clear_files: DELETE FROM files; DELETE FROM matches.  Whether
\* SQLite enforces the foreign keys depends on how it was built: with them
\* enforced the first DELETE fails while a match refers to a file, and
\* otherwise cascades to file_vectors.
ClearFiles(max_edits) ==
    /\ pc = "idle"
    /\ edits < max_edits
    /\ db_files # {}
    /\ \E foreign_keys \in BOOLEAN :
        IF foreign_keys /\ (\E r \in db_matches : r.file_id \in {f.id : f \in db_files})
        THEN UNCHANGED <<db_files, db_matches, db_match_rows, db_vectors>>
        ELSE /\ db_files' = {}
             /\ db_matches' = {}
             /\ db_match_rows' = <<>>
             /\ db_vectors' = IF foreign_keys
                              THEN {r \in db_vectors : r.file_id \notin {f.id : f \in db_files}}
                              ELSE db_vectors
    /\ edits' = edits + 1
    /\ UNCHANGED <<engine_vars, cache_vars, db_next_id, loop_vars, run_vars, progress_vars,
                   pc, result, runs, panicked>>

(***************************************************************************)
(* Specifications                                                          *)
(***************************************************************************)
\* device storage ceilings: one output cell, and the WebGPU default of
\* 128 MiB
StorageCeilings == {4, 134217728}

\* the settings of the chunk sizes that differ in effect: unset, or a
\* positive number
ChunkValues == {None} \cup {Some(n) : n \in 1..MaxEnvChunk}

AltNames == [i \in 1..MaxTileFiles |-> IF i % 2 = 1 THEN TxtA ELSE TxtB]

\* an identifier list of n identifiers
IdList(n) == [i \in 1..n |-> IF i % 2 = 1 THEN TxtA ELSE TxtB]

\* SpecTiles: every engine configuration, one GPU run over a store of m files
InitTiles ==
    /\ \E e \in [query_chunk : ChunkValues, file_chunk : ChunkValues, inflight : EnvValues],
          storage \in StorageCeilings :
        EngineNew(e, storage)
    /\ \E m \in 1..MaxTileFiles :
        /\ db_files = Scanned(m, AltNames).files
        /\ db_next_id = Scanned(m, AltNames).next_id
    /\ db_matches = {}
    /\ db_match_rows = <<>>
    /\ db_vectors = {}
    /\ IdleRun
    /\ runs = 0
    /\ edits = 0

NextTiles ==
    \/ \E n \in 0..MaxTileIds : GpuBegin(IdList(n), 70, TRUE, 1)
    \/ GpuDispatch
    \/ GpuThrottle
    \/ GpuDrain
    \/ GpuStore
    \/ Return

SpecTiles == InitTiles /\ [][NextTiles]_vars

(***************************************************************************)
(* Claims checked under SpecTiles                                          *)
(***************************************************************************)
GpuRunning == kind = "Gpu" /\ chunk_no >= 1

\* every tile of the run has been dispatched
AllDispatched == GpuRunning /\ LoopDone

\* cell (q, f) of the cross product, counted from 0, lies in tile t
InTile(t, q, f) ==
    /\ t.q_start <= q /\ q < t.q_start + t.q_len
    /\ t.f_start <= f /\ f < t.f_start + t.f_len

TilesOf(q, f) == {i \in 1..Len(dispatched) : InTile(dispatched[i], q, f)}

\* C1: the dispatched tiles of a GPU run never overlap, each tile's
\* file_offset is the position of the first file of its slice in the run's
\* file list, and once the submission loop has ended every (identifier, file)
\* cell of the cross product lies in exactly one tile.
C1_TilesPartition ==
    GpuRunning =>
        /\ \A i \in 1..Len(dispatched) :
              /\ dispatched[i].file_offset = dispatched[i].f_start
              /\ dispatched[i].q_len >= 1 /\ dispatched[i].f_len >= 1
              /\ dispatched[i].q_start + dispatched[i].q_len <= Len(hh_ids)
              /\ dispatched[i].f_start + dispatched[i].f_len <= Len(file_pairs)
        /\ \A q \in 0..(Len(hh_ids) - 1), f \in 0..(Len(file_pairs) - 1) :
              /\ Cardinality(TilesOf(q, f)) <= 1
              /\ AllDispatched => Cardinality(TilesOf(q, f)) = 1

\* a run of 3 identifiers over 3 files cut into tiles of 2 x 2, 2 x 1, 1 x 2, 1 x 1
C1_Witness ==
    /\ AllDispatched
    /\ Len(hh_ids) = 3 /\ Len(file_pairs) = 3
    /\ Len(dispatched) = 4
    /\ dispatched[2].file_offset = 2

\* C2 as stated: the queue never exceeds inflight_limit, a new tile finds at
\* most inflight_limit - 1 older tiles, and a configured TIFF_GPU_INFLIGHT of
\* 0 gives the limit 1.
C2_AsStated ==
    /\ inflight_limit >= 1
    /\ Len(pending) <= inflight_limit
    /\ pc = "dispatch" => Len(pending) <= inflight_limit - 1
    /\ inflight_limit = 1 => Len(pending) <= 1
    /\ env.inflight = Some(0) => inflight_limit = 1

\* C2 (amended): the queue never exceeds inflight_limit, a new tile finds at
\* most inflight_limit - 1 older tiles, the limit is at least 1, and a
\* configured TIFF_GPU_INFLIGHT of 0 is not raised to 1 but replaced by the
\* default of 2, like an unset or unparsable value.
C2_InflightBound ==
    /\ inflight_limit >= 1
    /\ Len(pending) <= inflight_limit
    /\ pc = "dispatch" => Len(pending) <= inflight_limit - 1
    /\ inflight_limit = 1 => Len(pending) <= 1
    /\ env.inflight \in {None, Some(0)} => inflight_limit = DEFAULT_INFLIGHT
    /\ env.inflight \notin {None, Some(0)} => inflight_limit = env.inflight[1]

\* a configured limit of 0, and two tiles in flight
C2_Witness ==
    /\ env.inflight = Some(0)
    /\ pc = "throttle"
    /\ Len(pending) = 2

\* C3: tiles are waited on in the order of their dispatch: the k-th wait()
\* of a run is on the k-th dispatched tile, and the queue holds the tiles
\* dispatched after it, oldest first.
C3_FifoResolution ==
    /\ \A k \in 1..Len(resolved) : resolved[k] = k
    /\ \A j \in 1..Len(pending) : pending[j].tid = Len(resolved) + j
    /\ Len(resolved) + Len(pending) = Len(dispatched) \/ (pc = "returned" /\ ~result.ok)

\* three tiles resolved by the in-flight limit and the last by the final drain
C3_Witness ==
    /\ pc = "returned" /\ result.ok
    /\ inflight_limit = 2
    /\ resolved = <<1, 2, 3, 4>>

\* C4: when a GPU run returns success, each dispatched tile was waited on
\* exactly once, nothing else was waited on, and the queue was empty when
\* the match import began.
C4_ResolvedOnce ==
    /\ \A k \in 1..Len(resolved) : resolved[k] \in 1..Len(dispatched)
    /\ \A t \in 1..Len(dispatched) : Cardinality({k \in 1..Len(resolved) : resolved[k] = t}) <= 1
    /\ (pc = "returned" /\ kind = "Gpu" /\ result.ok) =>
          /\ pending = <<>>
          /\ \A t \in 1..Len(dispatched) :
                Cardinality({k \in 1..Len(resolved) : resolved[k] = t}) = 1

\* a successful run of nine tiles with up to two in flight
C4_Witness ==
    /\ pc = "returned" /\ kind = "Gpu" /\ result.ok
    /\ Len(dispatched) = 9
    /\ inflight_limit = 2

(***************************************************************************)
(* Spec: one run of either engine over a store that already holds matches  *)
(***************************************************************************)
\* tiles of one identifier by one file, so that a run's matches come from
\* several tiles
UnitTiles == [query_chunk |-> Some(1), file_chunk |-> Some(1), inflight |-> None]

StoredNames == [i \in 1..MaxFiles |-> IF i % 2 = 1 THEN TxtA ELSE TxtB]

\* rows left in the matches table by earlier runs
PriorRows ==
    {[hh_id |-> TxtA, file_id |-> 1, similarity_score |-> 100],
     [hh_id |-> TxtB, file_id |-> 1, similarity_score |-> 66],
     [hh_id |-> TxtB, file_id |-> 2, similarity_score |-> 100]}

\* every identifier list of at most MaxIds identifiers
IdLists == UNION {[1..n -> HhIds] : n \in 0..MaxIds}

Init ==
    /\ EngineNew(UnitTiles, 134217728)
    /\ \E m \in 0..MaxFiles :
        /\ db_files = Scanned(m, StoredNames).files
        /\ db_next_id = Scanned(m, StoredNames).next_id
        /\ db_matches \in SUBSET {r \in PriorRows : r.file_id <= m}
    /\ db_match_rows = RowsInOrder(db_matches)
    /\ db_vectors = {}
    /\ IdleRun
    /\ runs = 0
    /\ edits = 0

Next ==
    \/ \E ids \in IdLists, threshold \in Thresholds, with_callback \in BOOLEAN :
           GpuBegin(ids, threshold, with_callback, 1)
    \/ GpuDispatch
    \/ GpuThrottle
    \/ GpuDrain
    \/ GpuStore
    \/ \E ids \in IdLists, threshold \in Thresholds, with_callback \in BOOLEAN :
           CpuRun(ids, threshold, with_callback, 1)
    \/ Return

Spec == Init /\ [][Next]_vars

(***************************************************************************)
(* Claims checked under Spec                                               *)
(***************************************************************************)
\* the rows a list of results is stored as
RowsOf(results) ==
    {[hh_id |-> results[k].hh_id, file_id |-> results[k].file_id,
      similarity_score |-> results[k].similarity] : k \in 1..Len(results)}

GpuSucceeded == pc = "returned" /\ kind = "Gpu" /\ result.ok
CpuSucceeded == pc = "returned" /\ kind = "Cpu" /\ result.ok

\* C7: after a successful GPU run over the identifier list I, the rows of
\* the matches table whose identifier is not in I are the rows it held before
\* the run, and the rows whose identifier is in I are exactly the matches this
\* run produced.
C7_ScopedReplace ==
    GpuSucceeded =>
        /\ {r \in db_matches : r.hh_id \notin Range(hh_ids)}
               = {r \in db0.matches : r.hh_id \notin Range(hh_ids)}
        /\ {r \in db_matches : r.hh_id \in Range(hh_ids)} = RowsOf(all_matches)

\* a successful GPU run that kept a row of another identifier and dropped
\* a row of one of its own identifiers
C7_Witness ==
    /\ GpuSucceeded
    /\ \E r \in db0.matches : r.hh_id \notin Range(hh_ids) /\ r \in db_matches
    /\ \E r \in db0.matches : r.hh_id \in Range(hh_ids) /\ r \notin db_matches
    /\ all_matches # <<>>

\* C8 as stated: after any successful CPU run, for any identifier list
\* including the empty one, the matches table holds exactly the matches of
\* that run.
C8_AsStated == CpuSucceeded => db_matches = RowsOf(all_matches)

\* C8: after a successful CPU run over a non-empty identifier list every
\* earlier row is gone and the matches table holds exactly the matches of
\* that run; a run over the empty list returns 0 and leaves the table as it
\* was.
C8_FullReset ==
    CpuSucceeded =>
        IF hh_ids = <<>>
        THEN db_matches = db0.matches /\ result.count = 0
        ELSE db_matches = RowsOf(all_matches)

\* a successful CPU run over a non-empty list that removed an earlier row
C8_Witness ==
    /\ CpuSucceeded
    /\ hh_ids # <<>>
    /\ all_matches # <<>>
    /\ \E r \in db0.matches : r \notin db_matches

\* C9: when match_and_store of either engine returns an error, whatever the
\* step that failed, the matches table is the one the run started with.
C9_ErrorKeepsMatches ==
    (pc = "returned" /\ ~result.ok) => db_matches = db0.matches

\* a GPU run whose commit failed after the clear and the inserts had run
\* against rows of its own identifiers
C9_Witness ==
    /\ pc = "returned" /\ kind = "Gpu"
    /\ result.error = "Failed to commit GPU matches"
    /\ all_matches # <<>>
    /\ \E r \in db0.matches : r.hh_id \in Range(hh_ids) /\ r \notin RowsOf(all_matches)

(***************************************************************************)
(* SpecCache: several GPU runs of one engine, the files table edited       *)
(* between the runs                                                        *)
(***************************************************************************)

\* the vector the first run of an earlier engine persisted for file 1 when
\* it was named a.tif
PersistedRow ==
    [file_id |-> 1, fingerprint |-> as_i64(fingerprint_entry(1, TxtA)),
     vector_blob |-> ToBlob(encode(TxtA))]

InitCache ==
    /\ EngineNew(UnitTiles, 134217728)
    /\ \E m \in 0..MaxFiles :
        \E names \in [1..m -> FileNames] :
            /\ db_files = Scanned(m, names).files
            /\ db_next_id = Scanned(m, names).next_id
    /\ db_vectors \in {{}, {PersistedRow}}
    /\ db_matches = {}
    /\ db_match_rows = <<>>
    /\ IdleRun
    /\ runs = 0
    /\ edits = 0

NextCache ==
    \/ GpuBegin(<<TxtA>>, 70, TRUE, MaxRuns)
    \/ GpuDispatch
    \/ GpuThrottle
    \/ GpuDrain
    \/ GpuStore
    \/ Return
    \/ \E file_path \in 1..MaxFiles, file_name \in FileNames :
           UpsertFile(file_path, file_name, MaxEdits)
    \/ ClearFiles(MaxEdits)

SpecCache == InitCache /\ [][NextCache]_vars

(***************************************************************************)
(* Claims checked under SpecCache                                          *)
(***************************************************************************)
\* C5 as stated: once the cache refresh of a GPU run is over, the cached
\* vector of every live file is the encoding of that file's current name.
C5_CacheFresh ==
    GpuRunning =>
        \A i \in 1..Len(file_pairs) :
            /\ file_pairs[i][1] \in DOMAIN file_vectors
            /\ file_vectors[file_pairs[i][1]] = encode(file_pairs[i][2])

LiveTag == <<Len(file_pairs), buffer_fingerprint(file_pairs)>>

\* C6: in a GPU run past the buffer step, the device buffer is tagged with
\* the count and the fingerprint of the run's live files, and it was rebuilt
\* in this run exactly when the tag found at the start of the run differed.
C6_BufferTag ==
    GpuRunning =>
        /\ BufferTag(file_gpu_buffer) = Some(LiveTag)
        /\ built <=> tag0 # Some(LiveTag)

\* a later run that found a buffer of the right count but of another
\* fingerprint, and rebuilt it
C6_Witness ==
    /\ GpuRunning
    /\ runs >= 2
    /\ tag0 # None
    /\ tag0[1][1] = Len(file_pairs)
    /\ tag0[1][2] # buffer_fingerprint(file_pairs)
    /\ built

\* the GPU run has not reached its match-store transaction: it is in the
\* tile loop or the final drain, or it returned an error from an earlier step
StoreErrors ==
    {"Failed to start GPU match transaction", "Failed to clear previous matches",
     "Failed to store GPU match", "Failed to commit GPU matches"}

BeforeStored ==
    /\ kind = "Gpu"
    /\ \/ pc \in {"dispatch", "throttle", "drain"}
       \/ pc = "returned" /\ ~result.ok /\ result.error \notin StoreErrors

\* the vector-cache row the cache refresh writes for a live file
FreshRow(pair) ==
    [file_id |-> pair[1], fingerprint |-> as_i64(fingerprint_entry(pair[1], pair[2])),
     vector_blob |-> ToBlob(encode(pair[2]))]

FullCalls == {k \in 1..Len(sink) : sink[k][1] = sink[k][2]}

\* C11: in a GPU run the completed values the progress callback receives
\* never decrease, each lies between 0 and total, and total is the number of
\* identifiers in every call.
C11_ProgressMonotone ==
    kind = "Gpu" =>
        \A k \in 1..Len(sink) :
            /\ sink[k][2] = Len(hh_ids)
            /\ 0 <= sink[k][1] /\ sink[k][1] <= sink[k][2]
            /\ k > 1 => sink[k - 1][1] <= sink[k][1]

\* a finished run whose callback saw a value strictly between 0 and total
C11_Witness ==
    /\ pc = "returned" /\ kind = "Gpu" /\ result.ok
    /\ Len(sink) >= 4
    /\ \E k \in 1..Len(sink) : 0 < sink[k][1] /\ sink[k][1] < sink[k][2]

\* C12 as stated: in a GPU run over at least one identifier the callback is
\* told completed = total at most once, only when every tile has been
\* dispatched and resolved, and exactly once when the run succeeds.
C12_FullOnceAtEnd ==
    (kind = "Gpu" /\ hh_ids # <<>>) =>
        /\ Cardinality(FullCalls) <= 1
        /\ FullCalls # {} => (AllDispatched /\ pending = <<>>)
        /\ (pc = "returned" /\ result.ok) => Cardinality(FullCalls) = 1

(***************************************************************************)
(* Empty inputs of a GPU run, checked under Spec                           *)
(***************************************************************************)
GpuReturned ==
    /\ pc = "returned" /\ kind = "Gpu"
    /\ result.error # "Failed to load files for GPU matcher"

\* C13 as stated: a GPU run over no identifiers, or over a store without
\* files, returns success with zero matches, dispatches no tile and reports
\* completion to the caller's callback.
C13_AsStated ==
    (GpuReturned /\ (hh_ids = <<>> \/ db0.files = {})) =>
        /\ result = Ok(0)
        /\ dispatched = <<>>
        /\ progress = "caller" => sink = <<<<0, 0>>>>

\* C13: a GPU run over a store without files returns the error "No files
\* found in database", whatever the identifier list, without calling the
\* callback; a run over no identifiers and at least one file returns success
\* with zero matches and calls the caller's callback once with (0, 0).  Both
\* dispatch no tile and leave the store as it was.
C13_ShortCircuit ==
    GpuReturned =>
        /\ db0.files = {} =>
               /\ result = Err("No files found in database")
               /\ dispatched = <<>> /\ sink = <<>> /\ Snapshot = db0
        /\ (db0.files # {} /\ hh_ids = <<>>) =>
               /\ result = Ok(0)
               /\ dispatched = <<>> /\ Snapshot = db0
               /\ sink = IF progress = "caller" THEN <<<<0, 0>>>> ELSE <<>>

\* a run over no identifiers and a store with files, with a callback
C13_Witness ==
    /\ GpuReturned
    /\ hh_ids = <<>> /\ db0.files # {}
    /\ progress = "caller"
    /\ sink = <<<<0, 0>>>>

\* ---------------------------------------------------------------------------
\* A direct call of SimilarityComputer::dispatch_tile (gpu.rs 187-211), followed
\* by GpuTileHandle::wait (gpu.rs 32-62), as compute_with_file_buffer makes it.
\* Machine words are scaled (USIZE_MOD, U32_MOD); the requests include lengths
\* and offsets whose products leave the word.
\* ---------------------------------------------------------------------------

QueryLens == {0, 1, 2, 2^28 + 1}
FileLens == {0, 1, 2, 4}
FileOffsets == {0, 1, 3, 2^19}
Dims == {0, VECTOR_SIZE, 2^28}
BufferLens == {0, 1, 4}

\* gpu.rs 176-185: the buffer holds the vectors it was created from
create_file_buffer(n) == [i \in 1..n |-> encode(IF i % 2 = 1 THEN TxtA ELSE TxtB)]

\* the caller's query slice: one vector per query, or an empty slice
QuerySlice(query_len, filled) == IF filled THEN [i \in 1..Min(query_len, 2) |-> encode(TxtA)] ELSE <<>>

InitDispatch ==
    /\ \E storage \in StorageCeilings : EngineNew(UnitTiles, storage)
    /\ db_files = {}
    /\ db_next_id = 1
    /\ db_vectors = {}
    /\ db_matches = {}
    /\ db_match_rows = <<>>
    /\ IdleRun
    /\ runs = 0
    /\ edits = 0

\* gpu.rs 187-211 applied to one request; the build either checks integer
\* overflow (a panic, caught at line 201) or wraps
DispatchTile(query_len, filled, buffer_len, file_offset, file_len, dim) ==
    /\ call = None
    /\ \E panics \in BOOLEAN, overflow_checks \in BOOLEAN :
        LET buffer == create_file_buffer(buffer_len)
            request == [query_len |-> query_len, filled |-> filled, buffer_size |-> BufferSize(buffer),
                        file_offset |-> file_offset, file_len |-> file_len, dim |-> dim,
                        overflow_checks |-> overflow_checks]
            reply == dispatch_tile(QuerySlice(query_len, filled), query_len, buffer, file_offset,
                                   file_len, dim, max_storage_bytes, panics, overflow_checks)
        IN call' = Some([request |-> request, reply |-> reply, waited |-> None])
    /\ UNCHANGED <<config_vars, side_vars, poller, worker, encoded, scored,
                   cache_vars, db_vars, loop_vars, run_vars, progress_vars, pc, result,
                   panicked, runs, edits>>

\* gpu.rs 32-62 applied to the handle the call returned
WaitTile ==
    /\ call # None
    /\ call[1].reply.ok
    /\ call[1].waited = None
    /\ \E mapped \in BOOLEAN :
        call' = Some([call[1] EXCEPT !.waited = Some(wait(call[1].reply.handle, mapped))])
    /\ UNCHANGED <<config_vars, side_vars, poller, worker, encoded, scored,
                   cache_vars, db_vars, loop_vars, run_vars, progress_vars, pc, result,
                   panicked, runs, edits>>

NextDispatch ==
    \/ \E query_len \in QueryLens, filled \in BOOLEAN, buffer_len \in BufferLens,
          file_offset \in FileOffsets, file_len \in FileLens, dim \in Dims :
           DispatchTile(query_len, filled, buffer_len, file_offset, file_len, dim)
    \/ WaitTile

SpecDispatch == InitDispatch /\ [][NextDispatch]_vars

Called == call # None
Request == call[1].request
Reply == call[1].reply

\* (file_offset + file_len) * dim * 4 > size over the integers, by division
EndExceeds(r) == r.dim > 0 /\ r.file_offset + r.file_len > r.buffer_size \div (r.dim * F32_BYTES)

\* C14 as stated: a request with positive lengths that ends beyond the file
\* buffer is an error that touches no device object; any other request that
\* binds the file buffer binds exactly the bytes of its own vectors.
C14_AsStated ==
    (Called /\ Request.query_len > 0 /\ Request.file_len > 0) =>
        IF EndExceeds(Request)
        THEN ~Reply.ok /\ Reply.device = Untouched
        ELSE Reply.device.files_binding # None =>
                Reply.device.files_binding[1] =
                    [offset |-> Request.file_offset * Request.dim * F32_BYTES,
                     size |-> Request.file_len * Request.dim * F32_BYTES]

\* q * f * 4 > max over the integers, by division
OutputExceeds(r, max_storage) == r.query_len * r.file_len > max_storage \div F32_BYTES

\* some step of the size arithmetic leaves the machine word
ArithmeticOverflows(r) ==
    \/ r.dim >= USIZE_MOD \div F32_BYTES
    \/ r.dim > 0 /\ r.file_offset + r.file_len > (USIZE_MOD - 1) \div (r.dim * F32_BYTES)
    \/ r.query_len * r.file_len > (USIZE_MOD - 1) \div F32_BYTES
    \/ r.query_len >= U32_MOD \/ r.file_len >= U32_MOD \/ r.dim >= U32_MOD

\* C15 as stated: a request whose output exceeds the storage ceiling, or whose
\* size arithmetic overflows, is an error; a pending handle carries the true
\* output size, within the ceiling.
C15_AsStated ==
    (Called /\ Request.query_len > 0 /\ Request.file_len > 0) =>
        /\ (OutputExceeds(Request, max_storage_bytes) \/ ArithmeticOverflows(Request)) => ~Reply.ok
        /\ (Reply.ok /\ Reply.handle.kind = "Pending") =>
               /\ ~OutputExceeds(Request, max_storage_bytes)
               /\ Reply.handle.output_bytes = Request.query_len * Request.file_len * F32_BYTES

\* C16: a request with query_len = 0 or file_len = 0 returns, whatever its
\* offset and buffer, a resolved handle and touches no device object; waiting
\* on the handle succeeds with an empty result without polling the device.
C16_EmptyRequest ==
    (Called /\ (Request.query_len = 0 \/ Request.file_len = 0)) =>
        /\ Reply.ok
        /\ Reply.handle = Immediate(<<>>)
        /\ Reply.device = Untouched
        /\ call[1].waited # None =>
               call[1].waited[1] = [ok |-> TRUE, error |-> "", scores |-> <<>>, polled |-> FALSE]

\* an empty request far outside an empty buffer has been answered and waited on
C16_Witness ==
    /\ Called
    /\ Request.query_len = 0
    /\ Request.file_len > 0
    /\ Request.file_offset = 2^19
    /\ Request.dim = VECTOR_SIZE
    /\ Request.buffer_size = 0
    /\ call[1].waited # None
    /\ call[1].waited[1].ok

\* the matches a newly constructed engine computes for this run's identifiers
\* and files
FreshRows ==
    {[hh_id |-> hh_ids[i], file_id |-> file_pairs[j][1],
      similarity_score |-> ShaderScore(encode(hh_ids[i]), encode(file_pairs[j][2]))] :
        <<i, j>> \in {c \in (1..Len(hh_ids)) \X (1..Len(file_pairs)) :
            ShaderScore(encode(hh_ids[c[1]]), encode(file_pairs[c[2]][2])) >= min_similarity}}

PanicReturned == pc = "returned" /\ kind = "Gpu" /\ result.error = "GPU dispatch panicked"

C17_PanicWitness ==
    /\ PanicReturned
    /\ Len(dispatched) = 1
    /\ db0.matches = db_matches

\* ---------------------------------------------------------------------------
\* The background thread of TiffLocatorApp::start_matching (gui.rs 421-503):
\* it builds the engine, falls back to the CPU engine when the GPU engine
\* cannot be built, runs match_and_store with a callback that sends progress
\* messages, and reports the outcome.
\* ---------------------------------------------------------------------------

\* match_engine.rs 32-37; gpu_new_ok: GpuMatchEngine::new finds a device
create_engine(engine_kind, gpu_new_ok) ==
    IF engine_kind = "Cpu" THEN [ok |-> TRUE, engine |-> Some("Cpu"), error |-> "", constructed |-> "Cpu"]
    ELSE IF gpu_new_ok THEN [ok |-> TRUE, engine |-> Some("Gpu"), error |-> "", constructed |-> "Gpu"]
    ELSE [ok |-> FALSE, engine |-> None, error |-> "No suitable GPU adapter found", constructed |-> "Gpu"]

Notice == [type |-> "MatchingEngineNotice"]
MatchingProgress(pair) == [type |-> "MatchingProgress", processed |-> pair[1], total |-> pair[2]]
MatchingComplete(count, engine_kind) == [type |-> "MatchingComplete", match_count |-> count, engine |-> engine_kind]
MatchingError(msg) == [type |-> "MatchingError", error |-> msg]

\* a caller that sends the notice only after the run
engine_for_silent(desired, first, retry) ==
    IF first.ok THEN [engine |-> first.engine, retried |-> FALSE, sent |-> <<>>]
    ELSE IF desired = "Gpu"
    THEN IF retry.ok THEN [engine |-> retry.engine, retried |-> TRUE, sent |-> <<>>]
         ELSE [engine |-> None, retried |-> TRUE,
               sent |-> <<MatchingError("Failed to initialize CPU matcher after GPU fallback")>>]
    ELSE [engine |-> None, retried |-> FALSE, sent |-> <<MatchingError(first.error)>>]

\* gui.rs 454-484, given the result of create_engine(desired) and the result
\* a create_engine(Cpu) gives when it is called
engine_for(desired, first, retry) ==
    IF first.ok THEN [engine |-> first.engine, retried |-> FALSE, sent |-> <<>>]
    ELSE IF desired = "Gpu"
    THEN IF retry.ok THEN [engine |-> retry.engine, retried |-> TRUE, sent |-> <<Notice>>]
         ELSE [engine |-> None, retried |-> TRUE,
               sent |-> <<MatchingError("Failed to initialize CPU matcher after GPU fallback")>>]
    ELSE [engine |-> None, retried |-> FALSE, sent |-> <<MatchingError(first.error)>>]

DbFailures == {"none", "open", "ids"}

\* gui.rs 421-484: open the store, read the identifiers, build the engine
StartWorker(prefer_gpu, gpu_new_ok, ids, db_fail) ==
    /\ worker.stage = "idle"
    /\ pc = "idle"
    /\ LET desired == IF prefer_gpu THEN "Gpu" ELSE "Cpu"
           first == create_engine(desired, gpu_new_ok)
           retry == create_engine("Cpu", gpu_new_ok)
           e == engine_for(desired, first, retry)
           tried(r) == [kind |-> r.constructed, ok |-> r.ok]
       IN worker' =
            IF db_fail = "open"
            THEN [worker EXCEPT !.stage = "done",
                                !.before = <<MatchingError("Database access error while matching")>>]
            ELSE IF db_fail = "ids"
            THEN [worker EXCEPT !.stage = "done",
                                !.before = <<MatchingError("Failed to read reference IDs")>>]
            ELSE [stage |-> IF e.engine = None THEN "done" ELSE "matching",
                  desired |-> desired,
                  attempts |-> IF e.retried THEN <<tried(first), tried(retry)>> ELSE <<tried(first)>>,
                  engine |-> e.engine,
                  ids |-> ids,
                  before |-> e.sent,
                  after |-> <<>>]
    /\ UNCHANGED <<config_vars, side_vars, poller, call, encoded, scored,
                   cache_vars, db_vars, loop_vars, run_vars, progress_vars, pc, result,
                   panicked, runs, edits>>

\* gui.rs 493: engine.match_and_store(&hh_ids, &mut db, threshold, Some(progress_callback))
WorkerRuns(engine_kind) == worker.stage = "matching" /\ worker.engine = Some(engine_kind)

WorkerGpuBegin == WorkerRuns("Gpu") /\ GpuBegin(worker.ids, 70, TRUE, 1)

WorkerCpuRun == WorkerRuns("Cpu") /\ CpuRun(worker.ids, 70, TRUE, 1)

\* gui.rs 493-502: the result of match_and_store becomes the last message
Report ==
    /\ worker.stage = "matching"
    /\ pc = "returned"
    /\ worker' = [worker EXCEPT !.stage = "done",
                                !.after = <<IF result.ok THEN MatchingComplete(result.count, kind)
                                            ELSE MatchingError(result.error)>>]
    /\ UNCHANGED <<config_vars, side_vars, poller, call, encoded, scored,
                   cache_vars, db_vars, loop_vars, run_vars, progress_vars, pc, result,
                   panicked, runs, edits>>

\* the messages received on the channel, in the order sent (gui.rs 486-491:
\* every progress call of the run is one message)
Channel == worker.before \o [i \in 1..Len(sink) |-> MatchingProgress(sink[i])] \o worker.after

NextEngine ==
    \/ \E prefer_gpu \in BOOLEAN, gpu_new_ok \in BOOLEAN, ids \in IdLists, db_fail \in DbFailures :
           StartWorker(prefer_gpu, gpu_new_ok, ids, db_fail)
    \/ WorkerGpuBegin
    \/ GpuDispatch
    \/ GpuThrottle
    \/ GpuDrain
    \/ GpuStore
    \/ WorkerCpuRun
    \/ Report

SpecEngine == Init /\ [][NextEngine]_vars

FellBack == worker.desired = "Gpu" /\ worker.attempts # <<>> /\ ~worker.attempts[1].ok

\* C18: a GPU engine that cannot be built yields an error and no engine; the
\* worker then builds the CPU engine, the fallback notice is the first message
\* of the channel, the run is a CPU run and its completion message names Cpu.
\* A worker asked for the CPU engine attempts no GPU construction, sends no
\* notice, and reports a construction error at once, without a second attempt.
C18_Fallback ==
    /\ create_engine("Gpu", FALSE).engine = None /\ ~create_engine("Gpu", FALSE).ok
    /\ FellBack =>
           /\ worker.attempts = <<[kind |-> "Gpu", ok |-> FALSE], [kind |-> "Cpu", ok |-> TRUE]>>
           /\ worker.engine = Some("Cpu")
           /\ kind \in {"none", "Cpu"}
           /\ Len(Channel) >= 1 /\ Channel[1] = Notice
           /\ \A i \in 2..Len(Channel) : Channel[i] # Notice
           /\ \A i \in 1..Len(Channel) :
                  Channel[i].type = "MatchingComplete" => (i = Len(Channel) /\ Channel[i].engine = "Cpu")
           /\ (worker.stage = "done" /\ result.ok) =>
                  Channel[Len(Channel)] = MatchingComplete(result.count, "Cpu")
    /\ worker.desired = "Cpu" =>
           /\ worker.attempts = <<[kind |-> "Cpu", ok |-> TRUE]>>
           /\ kind \in {"none", "Cpu"}
           /\ \A i \in 1..Len(Channel) : Channel[i] # Notice
    /\ \A msg \in {"a", "b"} :
           LET failed == [ok |-> FALSE, engine |-> None, error |-> msg, constructed |-> "Cpu"]
           IN engine_for("Cpu", failed, create_engine("Cpu", TRUE))
                  = [engine |-> None, retried |-> FALSE, sent |-> <<MatchingError(msg)>>]

\* a fallback run has sent the notice, then progress, then its completion
C18_Witness ==
    /\ FellBack
    /\ worker.stage = "done"
    /\ Len(Channel) >= 4
    /\ Channel[1] = Notice
    /\ Channel[2].type = "MatchingProgress"
    /\ Channel[Len(Channel)] = MatchingComplete(1, "Cpu")

\* ---------------------------------------------------------------------------
\* Direct calls of Vectorizer::encode (vectorizer.rs 14-35) on texts made of
\* a space, an upper-case letter and a lower-case letter.
\* ---------------------------------------------------------------------------

Alphabet == {32, 65, 98}
Texts == UNION {[1..n -> Alphabet] : n \in 0..MaxTextLen}

\* vectorizer.rs 14-35: one call; a call and one later call are recorded,
\* each with the bucket counts it held before normalize_vector
Encode(text) ==
    /\ Len(encoded) < 2
    /\ encoded' = Append(encoded, [text |-> text, vector |-> encode(text),
                                    histogram |-> IF normalize(text) = <<>> THEN ZeroHist
                                                  ELSE Histogram(normalize(text))])
    /\ UNCHANGED <<config_vars, side_vars, poller, call, worker, scored, cache_vars, db_vars, loop_vars, run_vars,
                   progress_vars, pc, result, panicked, runs, edits>>

NextEncode == \E text \in Texts : Encode(text)

SpecEncode == InitDispatch /\ [][NextEncode]_vars

\* lowercase(trim(T)), written out on the bytes
Folded(text) == [i \in 1..Len(Trim(text)) |-> ToLowerByte(Trim(text)[i])]

\* C19: every vector encode returns has VECTOR_SIZE components and is the
\* vector of the trimmed, lower-cased text; two calls whose texts agree up to
\* letter case and surrounding whitespace return the same vector, whatever was
\* encoded before.
C19_EncodeNormalized ==
    \A i \in 1..Len(encoded) :
        /\ encoded[i].vector.len = VECTOR_SIZE
        /\ encoded[i].vector = encode(Folded(encoded[i].text))
        /\ \A j \in 1..Len(encoded) :
               Folded(encoded[i].text) = Folded(encoded[j].text) =>
                   encoded[i].vector = encoded[j].vector

\* two calls on different texts that agree up to case and whitespace
\* returned one non-zero vector
C19_Witness ==
    /\ Len(encoded) = 2
    /\ encoded[1].text # encoded[2].text
    /\ Len(encoded[1].text) # Len(encoded[2].text)
    /\ \E k \in 1..Len(encoded[1].text) : encoded[1].text[k] = 65
    /\ Folded(encoded[1].text) = Folded(encoded[2].text)
    /\ encoded[1].vector = encoded[2].vector
    /\ encoded[1].vector.dir # ZeroHist

\* C20: encode returns the all-zero vector exactly for the texts that are
\* empty after trim and lowercase; every other vector has a strictly positive
\* component, no negative component, components only at indices below
\* VECTOR_SIZE, and a positive norm to divide by.
C20_ZeroIffEmpty ==
    \A i \in 1..Len(encoded) :
        LET v == encoded[i].vector
        IN /\ (v.dir = ZeroHist) <=> (Folded(encoded[i].text) = <<>>)
           /\ DOMAIN v.dir \subseteq 0..(VECTOR_SIZE - 1)
           /\ \A b \in DOMAIN v.dir : v.dir[b] > 0
           /\ Folded(encoded[i].text) # <<>> => (DOMAIN v.dir # {} /\ NormSq(v) > 0)

\* a text shorter than a window and a text of blanks only have been encoded
C20_Witness ==
    /\ Len(encoded) = 2
    /\ Len(Folded(encoded[1].text)) \in 1..(NGRAM_LEN - 1)
    /\ encoded[1].vector.dir # ZeroHist
    /\ encoded[2].text = <<32, 32>>
    /\ encoded[2].vector.dir = ZeroHist

\* ---------------------------------------------------------------------------
\* The CPU matcher's scoring (matcher.rs 23-40, 168-241).  SkimMatcherV2 is a
\* library: fuzzy_match is a function of (choice, pattern) whose values are
\* drawn from RawScores.  Scores are exact fractions in lowest terms.
\* ---------------------------------------------------------------------------

Frac(n, d) == [num |-> n \div Gcd(n, d), den |-> d \div Gcd(n, d)]
FracGeq(a, b) == a.num * b.den >= b.num * a.den
FracGt(a, b) == a.num * b.den > b.num * a.den

Lower(s) == [i \in 1..Len(s) |-> ToLowerByte(s[i])]

EndsWith(s, suffix) ==
    Len(s) >= Len(suffix) /\ SubSeq(s, Len(s) - Len(suffix) + 1, Len(s)) = suffix

\* str::strip_suffix
strip_suffix(s, suffix) ==
    IF EndsWith(s, suffix) THEN Some(SubSeq(s, 1, Len(s) - Len(suffix))) ELSE None

\* str::trim_end_matches: the suffix is removed as often as it occurs
RECURSIVE trim_end_matches(_, _)
trim_end_matches(s, suffix) ==
    IF EndsWith(s, suffix) THEN trim_end_matches(SubSeq(s, 1, Len(s) - Len(suffix)), suffix)
    ELSE s

DotTif == <<46, 116, 105, 102>>
DotTiff == <<46, 116, 105, 102, 102>>
DotTIF == <<46, 84, 73, 70>>
DotTIFF == <<46, 84, 73, 70, 70>>

\* matcher.rs 236-241
strip_tiff_suffix(name) ==
    IF strip_suffix(name, DotTif) # None THEN strip_suffix(name, DotTif)
    ELSE IF strip_suffix(name, DotTiff) # None THEN strip_suffix(name, DotTiff)
    ELSE IF strip_suffix(name, DotTIF) # None THEN strip_suffix(name, DotTIF)
    ELSE strip_suffix(name, DotTIFF)

\* matcher.rs 61-71: extensions off, then '_', '-', ' ', '.' removed
extract_id_from_filename(filename) ==
    LET name == trim_end_matches(trim_end_matches(trim_end_matches(
                    trim_end_matches(filename, DotTif), DotTiff), DotTIF), DotTIFF)
    IN SelectSeq(name, LAMBDA b : b \notin {95, 45, 32, 46})

\* matcher.rs 23-40: the candidate forms of a file name
from_record(file_name) ==
    LET stem == strip_tiff_suffix(file_name)
        extracted == extract_id_from_filename(file_name)
    IN <<Lower(file_name)>>
       \o (IF stem # None THEN <<Lower(stem[1])>> ELSE <<>>)
       \o (IF extracted # <<>> THEN <<Lower(extracted)>> ELSE <<>>)

RawScores == {None, Some(1), Some(2)}

\* Option::unwrap_or
unwrap_or(opt, default) == IF opt = None THEN default ELSE opt[1]

\* matcher.rs 168-173
perfect_score(fuzzy, query) == Max(unwrap_or(fuzzy[<<query, query>>], Max(Len(query), 1) * 10), 1)

\* a normalize_score without the length ratio
normalize_score_base_only(score, candidate, query, perfect) ==
    IF score <= 0 \/ perfect <= 0 THEN Frac(0, 1)
    ELSE IF Len(candidate) = 0 \/ Len(query) = 0 THEN Frac(0, 1)
    ELSE IF score >= perfect THEN Frac(1, 1) ELSE Frac(score, perfect)

\* matcher.rs 175-189 (and, line for line, searcher.rs 105-126)
normalize_score(score, candidate, query, perfect) ==
    IF score <= 0 \/ perfect <= 0 THEN Frac(0, 1)
    ELSE LET base == IF score >= perfect THEN Frac(1, 1) ELSE Frac(score, perfect)
             candidate_len == Len(candidate)
             query_len == Len(query)
         IN IF candidate_len = 0 \/ query_len = 0 THEN Frac(0, 1)
            ELSE LET len_ratio == Frac(Min(candidate_len, query_len), Max(candidate_len, query_len))
                     product == Frac(base.num * len_ratio.num, base.den * len_ratio.den)
                 IN IF FracGt(product, Frac(1, 1)) THEN Frac(1, 1) ELSE product

\* matcher.rs 209-213: the normalized score of one candidate
candidate_score(fuzzy, candidate, needle) ==
    LET score_forward == unwrap_or(fuzzy[<<candidate, needle>>], 0)
        score_reverse == unwrap_or(fuzzy[<<needle, candidate>>], 0)
    IN normalize_score(Max(score_forward, score_reverse), candidate, needle,
                       perfect_score(fuzzy, needle))

\* matcher.rs 207-220: the candidate loop with its early exit
RECURSIVE best_from(_, _, _, _, _, _)
best_from(i, best, candidates, needle, threshold, fuzzy) ==
    IF i > Len(candidates) THEN best
    ELSE LET normalized == candidate_score(fuzzy, candidates[i], needle)
             kept == IF FracGt(normalized, best) THEN normalized ELSE best
         IN IF FracGeq(kept, threshold) THEN kept
            ELSE best_from(i + 1, kept, candidates, needle, threshold, fuzzy)

\* matcher.rs 191-234 for one file
match_single_id(hh_id, file_id, candidates, threshold, fuzzy) ==
    LET trimmed == Trim(hh_id)
        needle == Lower(trimmed)
        best == best_from(1, Frac(0, 1), candidates, needle, threshold, fuzzy)
    IN IF trimmed = <<>> THEN <<>>
       ELSE IF FracGeq(best, threshold)
       THEN <<[hh_id |-> hh_id, file_id |-> file_id, similarity |-> best]>>
       ELSE <<>>

ScoredIds == {<<97, 49>>, <<32, 65, 49, 32>>, <<97>>, <<32>>}
ScoredNames == {<<65, 49, 46, 116, 105, 102>>, <<65, 95, 49>>, DotTif}
ScoreThresholds == {Frac(1, 2), Frac(7, 10), Frac(1, 1)}

\* every (choice, pattern) the scoring of these candidates asks the library
FuzzyPairs(candidates, needle) ==
    {<<needle, needle>>} \cup {<<candidates[i], needle>> : i \in 1..Len(candidates)}
                         \cup {<<needle, candidates[i]>> : i \in 1..Len(candidates)}

\* matcher.rs 100-103: one identifier against one file record
MatchSingleId(hh_id, file_name, threshold) ==
    /\ scored = None
    /\ LET candidates == from_record(file_name)
           needle == Lower(Trim(hh_id))
       IN \E fuzzy \in [FuzzyPairs(candidates, needle) -> RawScores] :
            scored' = Some([op |-> "match_single_id", hh_id |-> hh_id, needle |-> needle,
                            candidates |-> candidates, threshold |-> threshold, fuzzy |-> fuzzy,
                            results |-> match_single_id(hh_id, 1, candidates, threshold, fuzzy)])
    /\ UNCHANGED <<config_vars, side_vars, poller, call, worker, encoded, cache_vars, db_vars, loop_vars, run_vars,
                   progress_vars, pc, result, panicked, runs, edits>>

RawInputs == -1..3
ScoreTexts == {<<>>, <<97>>, <<97, 49>>, <<97, 49, 98>>, <<98, 50>>}

\* matcher.rs 175-189 applied to arbitrary arguments
NormalizeScore(score, candidate, query, perfect) ==
    /\ scored = None
    /\ scored' = Some([op |-> "normalize_score", score |-> score, candidate |-> candidate,
                       query |-> query, perfect |-> perfect,
                       value |-> normalize_score(score, candidate, query, perfect)])
    /\ UNCHANGED <<config_vars, side_vars, poller, call, worker, encoded, cache_vars, db_vars, loop_vars, run_vars,
                   progress_vars, pc, result, panicked, runs, edits>>

NextMatcher ==
    \/ \E hh_id \in ScoredIds, file_name \in ScoredNames, threshold \in ScoreThresholds :
           MatchSingleId(hh_id, file_name, threshold)
    \/ \E score \in RawInputs, perfect \in RawInputs, candidate \in ScoreTexts, query \in ScoreTexts :
           NormalizeScore(score, candidate, query, perfect)

SpecMatcher == InitDispatch /\ [][NextMatcher]_vars

Matched == scored # None /\ scored[1].op = "match_single_id"

\* the largest normalized score over all candidate forms
MaxCandidateScore ==
    LET all == {candidate_score(scored[1].fuzzy, scored[1].candidates[i], scored[1].needle) :
                    i \in 1..Len(scored[1].candidates)}
    IN CHOOSE m \in all : \A x \in all : FracGeq(m, x)

\* C21 as stated: for an identifier and a file, a match is produced exactly
\* when the largest normalized score over the file's candidate forms reaches
\* the threshold, and the similarity recorded is that largest score.
C21_AsStated ==
    (Matched /\ scored[1].needle # <<>>) =>
        /\ (scored[1].results # <<>>) <=> FracGeq(MaxCandidateScore, scored[1].threshold)
        /\ scored[1].results # <<>> => scored[1].results[1].similarity = MaxCandidateScore

Normalized == scored # None /\ scored[1].op = "normalize_score"

\* C22: normalize_score lies in [0, 1]; it is 0 for a raw or perfect score
\* that is not positive and for an empty string; a non-empty query scored
\* against itself with the perfect score gives exactly 1; a candidate of
\* another length scores strictly below 1; the value is
\* min(raw / perfect, 1) * min(len) / max(len).
C22_NormalizedScore ==
    Normalized =>
        LET c == scored[1]
            v == c.value
            lo == Min(Len(c.candidate), Len(c.query))
            hi == Max(Len(c.candidate), Len(c.query))
        IN /\ v.den > 0 /\ 0 <= v.num /\ v.num <= v.den
           /\ (c.score <= 0 \/ c.perfect <= 0 \/ c.candidate = <<>> \/ c.query = <<>>) => v.num = 0
           /\ (c.candidate = c.query /\ c.query # <<>> /\ c.score = c.perfect /\ c.perfect > 0) =>
                  v = Frac(1, 1)
           /\ Len(c.candidate) # Len(c.query) => v.num < v.den
           /\ (c.score > 0 /\ c.perfect > 0 /\ lo > 0) =>
                  v.num * (c.perfect * hi) = Min(c.score, c.perfect) * lo * v.den

\* a raw score above the perfect score, on a candidate longer than the query
C22_Witness ==
    /\ Normalized
    /\ scored[1].score > scored[1].perfect
    /\ scored[1].perfect > 0
    /\ Len(scored[1].candidate) > Len(scored[1].query)
    /\ scored[1].query # <<>>
    /\ scored[1].value = Frac(2, 3)

\* ---------------------------------------------------------------------------
\* Repeated GPU runs on one engine between which the files table is cleared
\* and rescanned (gui.rs 569 clear_files, scanner.rs upsert_file), so that
\* later runs meet cached vectors of files that are gone.
\* ---------------------------------------------------------------------------

InitRescan ==
    /\ EngineNew(UnitTiles, 134217728)
    /\ \E m \in 1..MaxFiles :
        /\ db_files = Scanned(m, [i \in 1..m |-> TxtA]).files
        /\ db_next_id = Scanned(m, [i \in 1..m |-> TxtA]).next_id
    /\ db_vectors = {}
    /\ db_matches = {}
    /\ db_match_rows = <<>>
    /\ IdleRun
    /\ runs = 0
    /\ edits = 0

NextRescan ==
    \/ GpuBegin(<<TxtA>>, 70, TRUE, MaxRuns)
    \/ GpuDispatch
    \/ GpuThrottle
    \/ GpuDrain
    \/ GpuStore
    \/ Return
    \/ \E file_path \in 1..MaxFiles : UpsertFile(file_path, TxtB, MaxEdits + 1)
    \/ ClearFiles(MaxEdits + 1)

SpecRescan == InitRescan /\ [][NextRescan]_vars

LiveIds == {file_pairs[i][1] : i \in 1..Len(file_pairs)}

\* C23: in a GPU run past its cache validation, from before the first
\* dispatch on, the in-memory vector cache has an entry for exactly the live
\* file ids and every row of the persisted vector table belongs to a row of
\* the files table.
C23_CacheEvicted ==
    GpuRunning =>
        /\ DOMAIN file_vectors = LiveIds
        /\ \A r \in db_vectors : r.file_id \in {f.id : f \in db_files}

\* a second run, before its first dispatch, on an engine that had cached
\* file 1 and over a store that began with a vector row of a file since
\* removed
C23_Witness ==
    /\ GpuRunning
    /\ pc = "dispatch"
    /\ dispatched = <<>>
    /\ runs = 2
    /\ tag0 # None
    /\ 1 \notin LiveIds
    /\ \E r \in db0.vectors : r.file_id \notin {f.id : f \in db0.files}
    /\ DOMAIN file_vectors = LiveIds

(***************************************************************************)
(* database.rs: the unique index of table matches                          *)
(***************************************************************************)
\* identifier lists with and without a repeated identifier
StoreLists == {<<TxtA, TxtA>>, <<TxtA, TxtB>>, <<TxtB>>}

\* SpecStore: GPU runs, CPU runs and single-identifier search stores in any
\* order over a store that already holds matches
NextStore ==
    \/ \E ids \in StoreLists : GpuBegin(ids, 70, FALSE, MaxRuns)
    \/ GpuDispatch
    \/ GpuThrottle
    \/ GpuDrain
    \/ GpuStore
    \/ \E ids \in {<<TxtA, TxtA>>, <<TxtB>>} : CpuRun(ids, 70, FALSE, MaxRuns)
    \/ \E hh_id \in HhIds : SearchStore(hh_id, 70, MaxRuns)
    \/ Return

SpecStore == Init /\ [][NextStore]_vars

\* C24: the matches table never holds two rows with the same identifier and
\* file id, whatever sequence of GPU runs, CPU runs and search stores filled
\* it and however often an identifier is repeated in a list; the rows are
\* the set of matches the table is read as.
C24_OneRowPerPair ==
    /\ \A i, j \in 1..Len(db_match_rows) :
           (db_match_rows[i].hh_id = db_match_rows[j].hh_id
            /\ db_match_rows[i].file_id = db_match_rows[j].file_id) => i = j
    /\ Range(db_match_rows) = db_matches

\* a GPU run over a list that repeats an identifier stored the same pair
\* twice: the insert of the second succeeded and the table holds one row
C24_Witness ==
    /\ GpuSucceeded
    /\ runs = 2
    /\ \E i, j \in 1..Len(all_matches) :
           /\ i < j
           /\ all_matches[i].hh_id = all_matches[j].hh_id
           /\ all_matches[i].file_id = all_matches[j].file_id
           /\ \E r \in db0.matches :
                  r.hh_id = all_matches[i].hh_id /\ r.file_id = all_matches[i].file_id
    /\ Len(db_match_rows) < Len(all_matches)

(***************************************************************************)
(* gpu.rs: DevicePoller and the completion of map requests                 *)
(***************************************************************************)
\* everything but the poller
poller_frame == <<config_vars, side_vars, call, worker, encoded, scored, cache_vars, db_vars, loop_vars,
                  run_vars, progress_vars, pc, result, panicked, runs, edits>>

\* a poll that runs no callback
fire_nothing(p) == p

\* device.poll: the callbacks of the map requests whose commands have
\* completed run on the polling thread, each request once
fire(p) ==
    LET ready == p.mapping \cap p.done
    IN [p EXCEPT !.mapping = @ \ ready, !.fired = @ \o RowsInOrder(ready)]

\* lines 383-387: while flag.load(Relaxed)
PollerLoad ==
    /\ poller.thread = "load"
    /\ poller' = [poller EXCEPT !.thread = IF poller.visible THEN "poll" ELSE "last"]
    /\ UNCHANGED poller_frame

\* line 384: device.poll(Maintain::Poll)
PollerPoll ==
    /\ poller.thread = "poll"
    /\ poller' = [fire(poller) EXCEPT !.thread = "sleep", !.polled = TRUE]
    /\ UNCHANGED poller_frame

\* line 386: thread::sleep
PollerSleep ==
    /\ poller.thread = "sleep"
    /\ poller' = [poller EXCEPT !.thread = "load"]
    /\ UNCHANGED poller_frame

\* line 388: device.poll(Maintain::Wait), then the thread ends
PollerLast ==
    /\ poller.thread = "last"
    /\ poller' = [fire(poller) EXCEPT !.thread = "exited"]
    /\ UNCHANGED poller_frame

\* the Relaxed store of the flag becomes visible to the poller thread
FlagVisible ==
    /\ poller.visible # poller.active
    /\ poller' = [poller EXCEPT !.visible = poller.active]
    /\ UNCHANGED poller_frame

\* the device finishes the commands of a submitted tile
DeviceComplete ==
    /\ \E tid \in 1..Len(dispatched) :
        /\ tid \notin poller.done
        /\ poller' = [poller EXCEPT !.done = @ \cup {tid}]
    /\ UNCHANGED poller_frame

\* wait() maps the staging buffer unless the handle is Immediate or empty
NeedsMap(tile) ==
    tile.handle.kind # "Immediate" /\ tile.handle.output_bytes > 0

\* gpu.rs lines 42-46: wait() registers the map request and its callback,
\* then blocks on the receiver
WaitBegin ==
    /\ pc \in {"throttle", "drain"}
    /\ pending # <<>>
    /\ NeedsMap(Head(pending))
    /\ Head(pending).tid \notin poller.mapping
    /\ Head(pending).tid \notin Range(poller.fired)
    /\ poller' = [poller EXCEPT !.mapping = @ \cup {Head(pending).tid}]
    /\ UNCHANGED poller_frame

\* gpu.rs line 46: block_on(receiver) returns once the callback has sent
Received ==
    /\ pending # <<>>
    /\ NeedsMap(Head(pending)) => Head(pending).tid \in Range(poller.fired)

PolledThrottle == Received /\ GpuThrottle

PolledDrain == Received /\ GpuDrain

\* a run starts only on an engine that has not been dropped
PolledBegin(ids) == poller.owner = "alive" /\ GpuBegin(ids, 70, FALSE, 1)

\* line 398: the engine and its computer are dropped between runs;
\* active.store(false, Relaxed)
DropStore ==
    /\ poller.owner = "alive"
    /\ pc = "idle"
    /\ poller' = [poller EXCEPT !.active = FALSE, !.owner = "stored"]
    /\ UNCHANGED poller_frame

\* line 399: self.handle.take()
DropTake ==
    /\ poller.owner = "stored"
    /\ poller' = IF poller.handle = "some"
                 THEN [poller EXCEPT !.handle = "taken", !.owner = "joining"]
                 ELSE [poller EXCEPT !.owner = "dropped"]
    /\ UNCHANGED poller_frame

\* a drop that does not wait for the thread
join_ready_detached(thread) == TRUE

\* JoinHandle::join returns when the thread has ended
join_ready(thread) == thread = "exited"

\* line 400: handle.join()
DropJoin ==
    /\ poller.owner = "joining"
    /\ join_ready(poller.thread)
    /\ poller' = [poller EXCEPT !.owner = "dropped"]
    /\ UNCHANGED poller_frame

PollerLists == {<<TxtA>>, <<TxtA, TxtB>>}

\* SpecPoller: one GPU run followed step by step together with the poller
\* thread, the device and the drop of the engine
InitPoller ==
    /\ \E spawned \in BOOLEAN : EngineWith(UnitTiles, 134217728, spawned)
    /\ \E m \in 1..MaxFiles :
        /\ db_files = Scanned(m, StoredNames).files
        /\ db_next_id = Scanned(m, StoredNames).next_id
    /\ db_matches = {}
    /\ db_match_rows = <<>>
    /\ db_vectors = {}
    /\ IdleRun
    /\ runs = 0
    /\ edits = 0

NextPoller ==
    \/ \E ids \in PollerLists : PolledBegin(ids)
    \/ GpuDispatch
    \/ WaitBegin
    \/ PolledThrottle
    \/ PolledDrain
    \/ GpuStore
    \/ Return
    \/ PollerLoad
    \/ PollerPoll
    \/ PollerSleep
    \/ PollerLast
    \/ FlagVisible
    \/ DeviceComplete
    \/ DropStore
    \/ DropTake
    \/ DropJoin

\* the steps of the orchestrator thread that follow a dispatch
Resolving == WaitBegin \/ PolledThrottle \/ PolledDrain \/ GpuStore

\* the steps of the poller thread
PollerThread == PollerLoad \/ PollerPoll \/ PollerSleep \/ PollerLast

\* the steps of a drop after its first
Dropping == DropTake \/ DropJoin

\* weak fairness of GpuDispatch, which is enabled exactly when pc = "dispatch"
DispatchFair == []<>(pc # "dispatch") \/ []<><<GpuDispatch>>_vars

\* the threads are scheduled, the device completes what is submitted, polls
\* and store calls return; when a run starts and when the engine is dropped
\* is up to the caller
SpecPoller ==
    /\ InitPoller
    /\ [][NextPoller]_vars
    /\ DispatchFair
    /\ WF_vars(Resolving)
    /\ WF_vars(PollerThread)
    /\ WF_vars(FlagVisible)
    /\ WF_vars(DeviceComplete)
    /\ WF_vars(Dropping)

\* C25: while the computer is alive a started poller thread stays in its
\* polling loop and polls again and again; the drop clears the flag before it
\* joins and returns only when the thread has ended; a thread that has read
\* the cleared flag starts no further iteration; a drop that has begun
\* returns.
C25_CooperativeStop ==
    /\ [](poller.owner = "alive" => poller.thread \in {"none", "load", "poll", "sleep"})
    /\ [](poller.owner \in {"joining", "dropped"} => ~poller.active)
    /\ [](poller.owner = "dropped" => poller.thread \in {"none", "exited"})
    /\ [][poller.thread \in {"last", "exited"} => poller'.thread \in {"last", "exited"}]_vars
    /\ (poller.thread = "load") ~> (poller.thread = "poll" \/ poller.owner # "alive")
    /\ (poller.owner # "alive") ~> (poller.owner = "dropped")

\* the drop has returned after joining a thread that had polled
C25_Witness ==
    /\ poller.owner = "dropped"
    /\ poller.handle = "taken"
    /\ poller.thread = "exited"
    /\ poller.polled

\* the tiles a run of SpecPoller can dispatch
TileIds == 1..(MaxIds * MaxFiles)

\* the orchestrator is inside wait(): the map request of the oldest pending
\* tile is registered and its callback has not run
Blocked ==
    /\ pc \in {"throttle", "drain"}
    /\ pending # <<>>
    /\ Head(pending).tid \in poller.mapping

\* C27: with the poller thread started, every wait() that has registered its
\* map request returns, after a callback that runs once per request, and every
\* GPU run that has begun returns, with the count of stored matches or with an
\* error; with no poller thread a wait() that blocks stays blocked.
C27_WaitReturns ==
    /\ \A tid \in TileIds :
           (poller.handle # "none" /\ tid \in poller.mapping) ~> (tid \in Range(resolved))
    /\ [](\A i, j \in 1..Len(poller.fired) : poller.fired[i] = poller.fired[j] => i = j)
    /\ [](Range(resolved) \subseteq Range(poller.fired))
    /\ (poller.handle # "none" /\ pc \in {"dispatch", "throttle", "drain"}) ~> (pc = "returned")
    /\ [][(poller.thread = "none" /\ Blocked) => Blocked']_vars

\* a run whose waits were all answered by the poller thread has stored
C27_Witness ==
    /\ poller.handle # "none"
    /\ pc = "returned"
    /\ result.ok
    /\ Len(poller.fired) >= 2
    /\ Len(resolved) = Len(poller.fired)

\* without a poller thread the orchestrator is inside a wait()
C27_BlockedWitness == poller.thread = "none" /\ Blocked /\ poller.done = 1..Len(dispatched)

(***************************************************************************)
(* match_engine.rs lines 468-509: where the orchestrator waits             *)
(***************************************************************************)
\* C26: a tile is waited on only by the throttle inside the submission loop
\* or by the final drain, and the throttle waits only when the queue has
\* reached inflight_limit: the tile it waits on is the oldest, and the
\* inflight_limit - 1 tiles dispatched after it are already submitted and
\* queued behind it.
C26_PipelinedWait ==
    /\ [][Len(resolved') > Len(resolved) => pc \in {"throttle", "drain"}]_vars
    /\ [](pc = "throttle" =>
             /\ Len(pending) >= inflight_limit
             /\ \A j \in 1..(inflight_limit - 1) :
                    /\ pending[1 + j].tid = pending[1].tid + j
                    /\ pending[1 + j].tid <= Len(dispatched))

\* the orchestrator is about to wait inside the submission loop, for the
\* second time, with a limit of two
C26_Witness ==
    /\ pc = "throttle"
    /\ inflight_limit = 2
    /\ Len(resolved) = 1
    /\ ~LoopDone
    /\ Len(pending) = 2
    /\ pending[1].tid = 2 /\ pending[2].tid = 3

(***************************************************************************)
(* match_engine.rs lines 282-301: the adaptive tile size                   *)
(***************************************************************************)
\* configured file chunk sizes, storage ceilings and query chunk lengths on
\* both sides of each limit
FileChunkSettings == {None, Some(1), Some(3), Some(1024), Some(4096)}
ChunkCeilings == {4, 2048, 10000, 1048576, 134217728}
QueryCounts == {1, 2, 1024, 32768}

InitChunk ==
    /\ \E file_chunk \in FileChunkSettings, storage \in ChunkCeilings :
        EngineNew([query_chunk |-> None, file_chunk |-> file_chunk, inflight |-> None], storage)
    /\ db_files = {}
    /\ db_next_id = 1
    /\ db_vectors = {}
    /\ db_matches = {}
    /\ db_match_rows = <<>>
    /\ IdleRun
    /\ runs = 0
    /\ edits = 0

\* gpu.rs lines 260-270: the output buffer of a tile of query_len by file_len
\* scores is refused when its size overflows or exceeds the ceiling
output_refused(query_len, file_len, max_storage) ==
    LET output_bytes == checked_mul(query_len * file_len, F32_BYTES)
    IN output_bytes = None \/ output_bytes[1] > max_storage

\* match_engine.rs line 466: the engine asks for the tile size of a chunk
FileChunkSizeFor(query_count) ==
    /\ call = None
    /\ call' = Some([request |-> [query_count |-> query_count],
                     reply |-> file_chunk_size_for(query_count, file_chunk_size,
                                                   max_storage_bytes)])
    /\ UNCHANGED <<config_vars, side_vars, poller, worker, encoded, scored,
                   cache_vars, db_vars, loop_vars, run_vars, progress_vars, pc, result,
                   panicked, runs, edits>>

NextChunk == \E query_count \in QueryCounts : FileChunkSizeFor(query_count)

SpecChunk == InitChunk /\ [][NextChunk]_vars

\* C28: for a chunk of q >= 1 identifiers the tile size is
\* max(1, min(B, S' div 2048, S' div 4q)) with S' = max(S, 2048); it lies
\* between 1 and max(B, 1); and when S >= 4q, a tile of any number of files up
\* to the tile size has an output of at most S bytes, binds at most S' bytes
\* of file vectors, and is not refused for its output size.
C28_TileSize ==
    call # None =>
        LET q == call[1].request.query_count
            B == file_chunk_size
            S == max_storage_bytes
            S1 == IF S >= 2048 THEN S ELSE 2048
            size == call[1].reply
            smaller(a, b) == IF a <= b THEN a ELSE b
            least == smaller(smaller(B, S1 \div 2048), S1 \div (4 * q))
        IN /\ size = (IF least >= 1 THEN least ELSE 1)
           /\ size >= 1
           /\ size <= (IF B >= 1 THEN B ELSE 1)
           /\ S >= 4 * q =>
                  \A tile_files \in 1..size :
                      /\ q * tile_files * 4 <= S
                      /\ tile_files * 2048 <= S1
                      /\ ~output_refused(q, tile_files, S)

\* a chunk whose output limit, not the configured size or the file limit,
\* decides the tile size
C28_Witness ==
    /\ call # None
    /\ call[1].request.query_count = 32768
    /\ max_storage_bytes = 134217728
    /\ file_chunk_size = 4096
    /\ call[1].reply = 1024

\* the ceiling is below one file vector: a tile of one file
C28_SmallCeilingWitness ==
    /\ call # None
    /\ call[1].request.query_count = 1
    /\ max_storage_bytes = 4
    /\ file_chunk_size = 256
    /\ call[1].reply = 1

(***************************************************************************)
(* match_engine.rs lines 184-206: which cells become matches               *)
(***************************************************************************)
\* SpecCells: one GPU run with tiles of one or several identifiers and files,
\* at a threshold below and at the highest score
InitCells ==
    /\ \E e \in [query_chunk : {None, Some(2)}, file_chunk : {None, Some(2)}, inflight : {None}] :
        EngineNew(e, 134217728)
    /\ \E m \in 1..MaxTileFiles :
        /\ db_files = Scanned(m, AltNames).files
        /\ db_next_id = Scanned(m, AltNames).next_id
    /\ db_matches = {}
    /\ db_match_rows = <<>>
    /\ db_vectors = {}
    /\ IdleRun
    /\ runs = 0
    /\ edits = 0

NextCells ==
    \/ \E n \in 1..MaxTileIds, threshold \in {70, 100} : GpuBegin(IdList(n), threshold, FALSE, 1)
    \/ GpuDispatch
    \/ GpuThrottle
    \/ GpuDrain
    \/ GpuStore
    \/ Return

SpecCells == InitCells /\ [][NextCells]_vars

\* the score the device computes for the i-th identifier of the run and the
\* j-th file of the device buffer
CellScore(i, j) == ShaderScore(encode(hh_ids[i]), file_gpu_buffer[1].buffer[j])

\* the match of cell (i, j)
CellMatch(i, j) ==
    [hh_id |-> hh_ids[i], file_id |-> file_pairs[j][1], similarity |-> CellScore(i, j)]

RECURSIVE Flatten(_)
Flatten(seqs) == IF seqs = <<>> THEN <<>> ELSE Head(seqs) \o Flatten(Tail(seqs))

\* the cells of a dispatched tile at or above the threshold, identifier by
\* identifier and file by file
TileCells(t) ==
    Flatten([q \in 1..t.q_len |->
                SelectSeq([f \in 1..t.f_len |-> CellMatch(t.q_start + q, t.f_start + f)],
                          LAMBDA r : r.similarity >= min_similarity)])

\* the cells of the whole cross product at or above the threshold
CrossCells ==
    {<<i, j>> \in (1..Len(hh_ids)) \X (1..Len(file_pairs)) : CellScore(i, j) >= min_similarity}

\* C29: the matches accumulated so far are, tile by tile in the order of
\* resolution, the cells of each resolved tile whose score is at or above the
\* threshold, with that score; a successful run returns the number of cells
\* of the cross product at or above the threshold and has stored exactly
\* those cells for its identifiers.
C29_CellsAtThreshold ==
    /\ (GpuRunning /\ pc # "idle" /\ ~(pc = "returned" /\ ~result.ok)) =>
           all_matches = Flatten([k \in 1..Len(resolved) |-> TileCells(dispatched[resolved[k]])])
    /\ GpuSucceeded =>
           /\ result.count = Cardinality(CrossCells)
           /\ {r \in db_matches : r.hh_id \in Range(hh_ids)}
                  = {[hh_id |-> hh_ids[c[1]], file_id |-> file_pairs[c[2]][1],
                      similarity_score |-> CellScore(c[1], c[2])] : c \in CrossCells}

\* a successful run at the threshold of the highest score, over tiles of two
\* identifiers and two files, in which a cell was kept and a cell was dropped
C29_Witness ==
    /\ GpuSucceeded
    /\ min_similarity = 100
    /\ Len(dispatched) >= 2
    /\ dispatched[1].q_len = 2 /\ dispatched[1].f_len = 2
    /\ \E c \in CrossCells : CellScore(c[1], c[2]) = 100
    /\ \E i \in 1..Len(hh_ids), j \in 1..Len(file_pairs) : <<i, j>> \notin CrossCells
    /\ result.count = Cardinality(CrossCells)

(***************************************************************************)
(* gpu.rs lines 294-299, 347-357 and SHADER: the grid and one invocation   *)
(***************************************************************************)
\* lines 294-299: the uniform block, each field converted with `as u32`
ShaderParams(query_len, file_len, dim) ==
    [query_len |-> AsU32(query_len), file_len |-> AsU32(file_len), dim |-> AsU32(dim)]

\* a group count that rounds down
x_groups_floor(query_len) == Max(AsU32(query_len) \div WORKGROUP_X, 1)

\* lines 354 and 356: (query_len as u32 + WORKGROUP_X - 1) / WORKGROUP_X, at least 1
x_groups(query_len) ==
    Max(((AsU32(query_len) + WORKGROUP_X - 1) % U32_MOD) \div WORKGROUP_X, 1)

\* lines 355 and 356
y_groups(file_len) ==
    Max(((AsU32(file_len) + WORKGROUP_Y - 1) % U32_MOD) \div WORKGROUP_Y, 1)

\* the global invocation ids of a grid of x by y workgroups of
\* WORKGROUP_X by WORKGROUP_Y invocations (z is 0 throughout)
Invocations(x, y) == (0..(x * WORKGROUP_X - 1)) \X (0..(y * WORKGROUP_Y - 1))

\* SHADER main: the invocation returns before any access
returns_early(global_id, params) ==
    global_id[1] >= params.query_len \/ global_id[2] >= params.file_len

\* SHADER main: q_index, f_index and out_index, in u32
q_index(global_id, i, params) == (global_id[1] * params.dim + i) % U32_MOD
f_index(global_id, i, params) == (global_id[2] * params.dim + i) % U32_MOD
out_index(global_id, params) == (global_id[1] * params.file_len + global_id[2]) % U32_MOD

\* the tiles: identifier and file counts around the workgroup size, the vector
\* length of the engine and of the smoke test
GridQueryLens == {1, 7, 8, 9, 17}
GridFileLens == {1, 3, 8, 9, 10, 16}
GridDims == {2, VECTOR_SIZE}

\* match_engine.rs lines 473-480 into gpu.rs lines 255-357: a tile whose query
\* slice holds query_len vectors of dim floats and whose file binding holds
\* file_len vectors is dispatched unless its output is refused
DispatchGrid(query_len, file_len, dim) ==
    /\ call = None
    /\ call' = Some([request |-> [query_len |-> query_len, file_len |-> file_len, dim |-> dim,
                                  query_floats |-> query_len * dim,
                                  file_floats |-> file_len * dim],
                     reply |-> IF output_refused(query_len, file_len, max_storage_bytes)
                               THEN None
                               ELSE Some([params |-> ShaderParams(query_len, file_len, dim),
                                          x |-> x_groups(query_len),
                                          y |-> y_groups(file_len),
                                          output_floats |-> query_len * file_len])])
    /\ UNCHANGED <<config_vars, side_vars, poller, worker, encoded, scored,
                   cache_vars, db_vars, loop_vars, run_vars, progress_vars, pc, result,
                   panicked, runs, edits>>

NextGrid ==
    \E query_len \in GridQueryLens, file_len \in GridFileLens, dim \in GridDims :
        DispatchGrid(query_len, file_len, dim)

SpecGrid == InitDispatch /\ [][NextGrid]_vars

\* C30: a dispatched tile runs the least whole number of 8 by 8 workgroups
\* that covers query_len by file_len; each cell of the output is written by
\* exactly one invocation, the one whose id is the cell's pair; an invocation
\* outside the tile accesses nothing; every index read lies in the query
\* slice or in the file binding and every index written in the output.
C30_GridCovers ==
    (call # None /\ call[1].reply # None) =>
        LET req == call[1].request
            rep == call[1].reply[1]
            grid == Invocations(rep.x, rep.y)
        IN /\ 8 * rep.x >= req.query_len /\ 8 * (rep.x - 1) < req.query_len
           /\ 8 * rep.y >= req.file_len /\ 8 * (rep.y - 1) < req.file_len
           /\ \A q \in 0..(req.query_len - 1), f \in 0..(req.file_len - 1) :
                  {g \in grid : ~returns_early(g, rep.params)
                                /\ out_index(g, rep.params) = q * req.file_len + f}
                      = {<<q, f>>}
           /\ \A g \in grid :
                  returns_early(g, rep.params)
                      <=> ~(g[1] < req.query_len /\ g[2] < req.file_len)
           /\ \A g \in grid :
                  ~returns_early(g, rep.params) =>
                      /\ out_index(g, rep.params) < rep.output_floats
                      /\ \A i \in 0..(req.dim - 1) :
                             /\ q_index(g, i, rep.params) < req.query_floats
                             /\ f_index(g, i, rep.params) < req.file_floats

\* a tile of 17 by 9 engine vectors: 3 by 2 workgroups, most of the last
\* ones idle
C30_Witness ==
    /\ call # None /\ call[1].reply # None
    /\ call[1].request.query_len = 17 /\ call[1].request.file_len = 9
    /\ call[1].request.dim = VECTOR_SIZE
    /\ call[1].reply[1].x = 3 /\ call[1].reply[1].y = 2
    /\ \E g \in Invocations(3, 2) : returns_early(g, call[1].reply[1].params)

(***************************************************************************)
(* matcher.rs 74-119: match_ids on the rayon workers, one action per step  *)
(* of a chunk's closure                                                    *)
(***************************************************************************)
MaxWorkers == 2

\* everything but the pool, the run's position and its callback's calls
pool_frame == <<config_vars, vcalls, app, loader, poller, call, worker, encoded, scored, cache_vars, db_vars,
                hh_ids, min_similarity, file_pairs, chunk_no, tile_no, pending, all_matches,
                result, progress, tracker, dispatched, resolved, db0, tag0, built, panicked,
                runs, edits, kind>>

\* match_engine.rs 107-141 and matcher.rs 121-137: the first call of the
\* callback, the early returns, and the chunks handed to the pool
CpuBegin(ids, threshold, with_callback, max_runs, bests) ==
    /\ pc = "idle"
    /\ runs < max_runs
    /\ runs' = runs + 1
    /\ kind' = "Cpu"
    /\ hh_ids' = ids
    /\ min_similarity' = threshold
    /\ db0' = Snapshot
    /\ file_pairs' = <<>>
    /\ UNCHANGED <<config_vars, vcalls, app, loader, poller, call, worker, encoded, scored, cache_vars, db_vars,
                   chunk_no, tile_no, pending, dispatched, resolved, tag0, built, edits,
                   tracker, panicked, all_matches>>
    /\ progress' = IF with_callback THEN "caller" ELSE IF ids # <<>> THEN "logging" ELSE "none"
    /\ sink' = Call(<<>>, progress', <<0, Len(ids)>>)
    /\ \E files \in get_all_files(db_files), load_fails \in BOOLEAN, best \in bests :
        IF ids = <<>>
        THEN Returns(Ok(0)) /\ UNCHANGED pool
        ELSE IF load_fails
        THEN Returns(Err("Failed to get files from database")) /\ UNCHANGED pool
        ELSE IF files = <<>>
        THEN Returns(Err("No files found in database")) /\ UNCHANGED pool
        ELSE /\ pc' = "pool"
             /\ UNCHANGED result
             /\ pool' = [state |-> [k \in 1..Len(Chunks(ids, CPU_CHUNK)) |-> "queued"],
                         completed |-> [k \in 1..Len(Chunks(ids, CPU_CHUNK)) |-> 0],
                         processed |-> 0,
                         best |-> best,
                         files |-> files]

\* the chunks a worker is running
Busy(p) == {k \in 1..Len(p.state) : p.state[k] \in {"scored", "counted", "calling"}}

\* matcher.rs 95-101: a free worker takes a chunk and scores its identifiers
ChunkScore(k) ==
    /\ pc = "pool"
    /\ k \in 1..Len(pool.state)
    /\ pool.state[k] = "queued"
    /\ Cardinality(Busy(pool)) < MaxWorkers
    /\ pool' = [pool EXCEPT !.state[k] = "scored"]
    /\ UNCHANGED <<pool_frame, pc, sink>>

\* matcher.rs 105-106: processed.fetch_add(chunk.len(), Relaxed) + chunk.len()
ChunkFetchAdd(k) ==
    /\ pc = "pool"
    /\ k \in 1..Len(pool.state)
    /\ pool.state[k] = "scored"
    /\ LET len == Len(Chunks(hh_ids, CPU_CHUNK)[k])
       IN pool' = [pool EXCEPT !.state[k] = "counted",
                               !.completed[k] = pool.processed + len,
                               !.processed = pool.processed + len]
    /\ UNCHANGED <<pool_frame, pc, sink>>

\* a lock anybody can take at any time
mutex_free_always(p) == TRUE

\* Mutex::lock succeeds when no other chunk holds the guard
mutex_free(p) == \A k \in 1..Len(p.state) : p.state[k] # "calling"

\* matcher.rs 107: callback.lock(); the chunk holds the guard and is in the
\* callback until ChunkCallback
ChunkLock(k) ==
    /\ pc = "pool"
    /\ k \in 1..Len(pool.state)
    /\ pool.state[k] = "counted"
    /\ mutex_free(pool)
    /\ pool' = [pool EXCEPT !.state[k] = "calling"]
    /\ UNCHANGED <<pool_frame, pc, sink>>

\* matcher.rs 108: cb(completed.min(total), total), then the guard is dropped
ChunkCallback(k) ==
    /\ pc = "pool"
    /\ k \in 1..Len(pool.state)
    /\ pool.state[k] = "calling"
    /\ sink' = Call(sink, progress, <<Min(pool.completed[k], Len(hh_ids)), Len(hh_ids)>>)
    /\ pool' = [pool EXCEPT !.state[k] = "done"]
    /\ UNCHANGED <<pool_frame, pc>>

\* the failure points of the import tried after a run of the pool: every
\* statement but the inserts between the first and the last
PoolStoreFailures(results) ==
    {fail \in StoreFailures(results) : fail[1] = "insert" => fail[2] \in {1, Len(results)}}

\* matcher.rs 114-116 and 139-163: the chunks' results are collected in the
\* order of the chunks and stored
CpuStore ==
    /\ pc = "pool"
    /\ \A k \in 1..Len(pool.state) : pool.state[k] = "done"
    /\ LET found == match_ids(hh_ids, pool.files, min_similarity, pool.best)
       IN /\ all_matches' = found
          /\ \E fail \in PoolStoreFailures(found) :
                LET st == cpu_store(db_matches, found, fail)
                IN /\ db_matches' = st.matches
                   /\ db_match_rows' = store_rows(db_match_rows, <<>>, found, fail)
                   /\ Returns(IF st.ok THEN Ok(Len(found)) ELSE Err(st.error))
    /\ pool' = NoPool
    /\ UNCHANGED <<config_vars, vcalls, app, loader, poller, call, worker, encoded, scored, cache_vars, db_files,
                   db_next_id, db_vectors, hh_ids, min_similarity, file_pairs, chunk_no,
                   tile_no, pending, progress, tracker, sink, dispatched, resolved, db0, tag0,
                   built, panicked, runs, edits, kind>>

\* SpecPool: one CPU run of one, two or three chunks over a store of no or
\* one file
PoolLens == {1, CPU_CHUNK, CPU_CHUNK + 1, 2 * CPU_CHUNK + 6}

\* a list of n identifiers, and the scores of the external matcher tried for
\* it: any score for the first identifier, none for the others
PoolIds(n) == [i \in 1..n |-> IF i = 1 THEN TxtA ELSE TxtB]

PoolBests(ids) ==
    {best \in [Range(ids) \X {f.id : f \in db_files} -> CpuScores] :
        \A pair \in DOMAIN best : pair[1] # TxtA => best[pair] = 0}

NextPool ==
    \/ \E n \in PoolLens \cup {0}, with_callback \in BOOLEAN :
           CpuBegin(PoolIds(n), 70, with_callback, 1, PoolBests(PoolIds(n)))
    \/ \E k \in 1..Len(pool.state) : ChunkScore(k)
    \/ \E k \in 1..Len(pool.state) : ChunkFetchAdd(k)
    \/ \E k \in 1..Len(pool.state) : ChunkLock(k)
    \/ \E k \in 1..Len(pool.state) : ChunkCallback(k)
    \/ CpuStore
    \/ Return

InitPool ==
    /\ EngineNew(UnitTiles, 134217728)
    /\ \E m \in {0, 1} :
        /\ db_files = Scanned(m, AltNames).files
        /\ db_next_id = Scanned(m, AltNames).next_id
    /\ db_matches = {}
    /\ db_match_rows = <<>>
    /\ db_vectors = {}
    /\ IdleRun
    /\ runs = 0
    /\ edits = 0

SpecPool == InitPool /\ [][NextPool]_vars

\* the chunks whose fetch_add has happened
Counted == {k \in 1..Len(pool.state) : pool.state[k] \in {"counted", "calling", "done"}}

\* the chunks whose call of the callback has returned
Delivered == {k \in 1..Len(pool.state) : pool.state[k] = "done"}

ChunkLen(k) == Len(Chunks(hh_ids, CPU_CHUNK)[k])

\* the identifiers of the chunks counted no later than chunk k
CountedUpTo(k) ==
    SumOver({c \in Counted : pool.completed[c] <= pool.completed[k]},
            [c \in Counted |-> ChunkLen(c)])

\* C31: in a CPU run over n >= 1 identifiers that reaches the matcher, the
\* callback is called with (0, n) before any chunk is scored and then once
\* per chunk of 32 identifiers with the number of identifiers counted so far;
\* the values of the chunks differ pairwise, none exceeds n, exactly one of
\* them is n once every chunk has reported, and no two chunks are in the
\* callback at the same time.
C31_ChunkProgress ==
    pc = "pool" =>
        /\ Len(pool.state) = CeilDiv(Len(hh_ids), CPU_CHUNK)
        /\ Len(sink) = 1 + Cardinality(Delivered)
        /\ sink[1] = <<0, Len(hh_ids)>>
        /\ {sink[i] : i \in 2..Len(sink)}
             = {<<pool.completed[k], Len(hh_ids)>> : k \in Delivered}
        /\ \A k \in Counted : pool.completed[k] = CountedUpTo(k)
        /\ \A i, j \in 2..Len(sink) : sink[i][1] = sink[j][1] => i = j
        /\ \A i \in 1..Len(sink) : sink[i][1] <= Len(hh_ids)
        /\ Cardinality({i \in 2..Len(sink) : sink[i][1] = Len(hh_ids)}) <= 1
        /\ (Delivered = 1..Len(pool.state)) =>
               Cardinality({i \in 2..Len(sink) : sink[i][1] = Len(hh_ids)}) = 1
        /\ Cardinality({k \in 1..Len(pool.state) : pool.state[k] = "calling"}) <= 1

\* three chunks have reported, the short last chunk was counted first, and a
\* second chunk was waiting for the lock while another was in the callback
C31_Witness ==
    /\ pc = "pool"
    /\ Len(pool.state) = 3
    /\ Delivered = {1, 3}
    /\ pool.completed[3] < CPU_CHUNK
    /\ pool.state[2] = "calling"
    /\ Len(sink) = 3

\* C35 as stated: in a CPU run the completed values reach the callback in
\* non-decreasing order, whatever the interleaving of the workers.
C35_AsStated ==
    kind = "Cpu" => \A i \in 2..Len(sink) : sink[i - 1][1] <= sink[i][1]

(***************************************************************************)
(* vectorizer.rs 20-48: the bucket counts of encode, checked under         *)
(* SpecHistogram                                                           *)
(***************************************************************************)
\* SpecHistogram: calls of encode on texts of two lower-case letters and a
\* space, up to MaxGramLen bytes
MaxGramLen == 5
GramTexts == UNION {[1..n -> {32, 97, 98}] : n \in 0..MaxGramLen}

NextHistogram == \E text \in GramTexts : Len(encoded) < 1 /\ Encode(text)

SpecHistogram == InitDispatch /\ [][NextHistogram]_vars

\* h folded from 0 by h <- 31*h + byte; for at most NGRAM_LEN bytes it stays
\* below 2^18, so reducing it modulo 2^32 changes nothing
RECURSIVE Fold31(_, _)
Fold31(h, bytes) == IF bytes = <<>> THEN h ELSE Fold31(31 * h + Head(bytes), Tail(bytes))

\* the 3-byte windows of a byte string, or the string itself when shorter
Grams(bytes) ==
    IF Len(bytes) < 3 THEN {<<1, bytes>>}
    ELSE {<<i, SubSeq(bytes, i, i + 2)>> : i \in 1..(Len(bytes) - 2)}

\* C32: before normalisation the bucket counts encode holds for a normalised
\* text of L >= 1 bytes sum to max(1, L - 2): one increment per 3-byte window,
\* or one for the whole text when L < 3; the bucket of a byte sequence is
\* (h mod 512) with h folded from 0 by h <- (31*h + byte) mod 2^32, so every
\* bucket is in 0..511 and equal windows hit the same bucket.
C32_HistogramSum ==
    \A k \in 1..Len(encoded) :
        LET bytes == Folded(encoded[k].text)
            hist == encoded[k].histogram
            bucket(g) == Fold31(0, g[2]) % 512
        IN Len(bytes) >= 1 =>
            /\ SumOver(DOMAIN hist, hist) = Max(1, Len(bytes) - 2)
            /\ DOMAIN hist \subseteq 0..511
            /\ \A g \in Grams(bytes) : Fold31(0, g[2]) < 262144
            /\ DOMAIN hist = {bucket(g) : g \in Grams(bytes)}
            /\ \A b \in DOMAIN hist :
                   hist[b] = Cardinality({g \in Grams(bytes) : bucket(g) = b})

\* a text of several windows, two of them equal, whose hash exceeds 2^16
C32_Witness ==
    \E k \in 1..Len(encoded) :
        LET bytes == Folded(encoded[k].text)
        IN /\ Len(bytes) >= 4
           /\ \E b \in DOMAIN encoded[k].histogram : encoded[k].histogram[b] >= 2
           /\ Cardinality(DOMAIN encoded[k].histogram) >= 2
           /\ \E g \in Grams(bytes) : Fold31(0, g[2]) > 65536

\* a text shorter than a window: one increment for the whole text
C32_ShortWitness ==
    \E k \in 1..Len(encoded) :
        /\ Len(Folded(encoded[k].text)) \in {1, 2}
        /\ Len(encoded[k].text) > Len(Folded(encoded[k].text))
        /\ SumOver(DOMAIN encoded[k].histogram, encoded[k].histogram) = 1

(***************************************************************************)
(* match_engine.rs 253-280 and 468-487: the rows of the device file matrix *)
(* and the files they are attributed to, checked under SpecCache           *)
(***************************************************************************)
\* SpecOrder: three GPU runs of one engine over two stored files, one of
\* which may be rescanned under another name between the runs
InitOrder ==
    /\ EngineNew(UnitTiles, 134217728)
    /\ \E names \in [1..2 -> FileNames] :
        /\ db_files = Scanned(2, names).files
        /\ db_next_id = Scanned(2, names).next_id
    /\ db_vectors = {}
    /\ db_matches = {}
    /\ db_match_rows = <<>>
    /\ IdleRun
    /\ runs = 0
    /\ edits = 0

NextOrder ==
    \/ GpuBegin(<<TxtA>>, 70, TRUE, 3)
    \/ GpuDispatch
    \/ GpuThrottle
    \/ GpuDrain
    \/ GpuStore
    \/ Return
    \/ \E file_path \in 1..2, file_name \in FileNames : UpsertFile(file_path, file_name, 1)

SpecOrder == InitOrder /\ [][NextOrder]_vars

\* C33 as stated: whenever a GPU run dispatches against the device file
\* matrix, freshly built or reused, row i of the matrix is the vector of the
\* i-th file of the run's file list, also when the store returned the same
\* files in another order than when the matrix was built.
C33_AsStated ==
    GpuRunning =>
        /\ Len(file_gpu_buffer[1].buffer) = Len(file_pairs)
        /\ \A i \in 1..Len(file_pairs) :
               file_gpu_buffer[1].buffer[i] = file_vectors[file_pairs[i][1]]

(***************************************************************************)
(* The width of the cached vectors, checked under SpecCache                *)
(***************************************************************************)
\* the vector of file 1 in the cache was read from the vector table
LoadedFromTable ==
    /\ 1 \in DOMAIN file_vectors
    /\ db0.vectors = {PersistedRow}
    /\ PersistedRow \in db_vectors
    /\ \E r \in db0.files : r.id = 1 /\ r.file_name = TxtA

\* C34: every vector in the in-memory cache of the GPU engine, also one read
\* from the vector table, has VECTOR_SIZE components; the device file matrix
\* holds file_count * VECTOR_SIZE floats, and no tile the engine has
\* dispatched ends beyond the matrix.
C34_VectorWidth ==
    /\ \A id \in DOMAIN file_vectors : file_vectors[id].len = VECTOR_SIZE
    /\ file_gpu_buffer # NoBuffer =>
           BufferSize(file_gpu_buffer[1].buffer)
               = file_gpu_buffer[1].count * VECTOR_SIZE * F32_BYTES
    /\ GpuRunning =>
           \A k \in 1..Len(dispatched) :
               (dispatched[k].file_offset + dispatched[k].f_len) * VECTOR_SIZE * F32_BYTES
                   <= BufferSize(file_gpu_buffer[1].buffer)

\* a run of a new engine that took the vector of file 1 from the table and
\* has dispatched the tile of the last file of two
C34_Witness ==
    /\ GpuRunning
    /\ runs = 1
    /\ LoadedFromTable
    /\ Len(file_pairs) = 2
    /\ \E k \in 1..Len(dispatched) : dispatched[k].file_offset + dispatched[k].f_len = 2

(***************************************************************************)
(* database.rs 302-339: direct calls on the vector table                   *)
(***************************************************************************)
MaxVectorCalls == 3

\* u64 values at both ends of both halves of the range
Fingerprints == {0, U64_MOD \div 2 - 1, U64_MOD \div 2, U64_MOD - 1}

\* everything but the calls on the vector table and the table
vcalls_frame == <<config_vars, pool, app, loader, poller, call, worker, encoded, scored,
                  cache_vars, db_files, db_next_id, db_matches, db_match_rows, loop_vars,
                  run_vars, progress_vars, pc, result, panicked, runs, edits>>

\* db.upsert_file_vector(file_id, fingerprint, &data)
UpsertFileVector(file_id, fingerprint, data) ==
    /\ Len(vcalls) < MaxVectorCalls
    /\ db_vectors' = upsert_file_vector(db_vectors, file_id, fingerprint, data)
    /\ vcalls' = Append(vcalls, [op |-> "upsert", file_id |-> file_id,
                                 fingerprint |-> fingerprint, data |-> data, reply |-> None])
    /\ UNCHANGED vcalls_frame

\* db.get_file_vector(file_id, fingerprint)
GetFileVector(file_id, fingerprint) ==
    /\ Len(vcalls) < MaxVectorCalls
    /\ vcalls' = Append(vcalls, [op |-> "get", file_id |-> file_id,
                                 fingerprint |-> fingerprint, data |-> None,
                                 reply |-> get_file_vector(db_vectors, file_id, fingerprint)])
    /\ UNCHANGED <<vcalls_frame, db_vectors>>

\* SpecVectors: up to MaxVectorCalls calls on the vector table of a store of
\* two files
NextVectors ==
    \/ \E file_id \in 1..2, fingerprint \in Fingerprints, name \in FileNames :
           UpsertFileVector(file_id, fingerprint, encode(name))
    \/ \E file_id \in 1..2, fingerprint \in Fingerprints : GetFileVector(file_id, fingerprint)

InitVectors ==
    /\ EngineNew(UnitTiles, 134217728)
    /\ db_files = Scanned(2, AltNames).files
    /\ db_next_id = Scanned(2, AltNames).next_id
    /\ db_vectors = {}
    /\ db_matches = {}
    /\ db_match_rows = <<>>
    /\ IdleRun
    /\ runs = 0
    /\ edits = 0

SpecVectors == InitVectors /\ [][NextVectors]_vars

\* the upserts for the file of call k that came before it
UpsertsBefore(k) ==
    {j \in 1..(k - 1) : vcalls[j].op = "upsert" /\ vcalls[j].file_id = vcalls[k].file_id}

\* C38: get_file_vector(id, G) returns the vector of the latest
\* upsert_file_vector(id, F, V) for that id, unchanged, when G = F, and
\* nothing when G # F or no vector was stored for the id; this holds for
\* every u64 F, also in the upper half of the range, whose conversion to the
\* signed column and back loses nothing; a later upsert for the same id
\* replaces both fingerprint and vector.
C38_VectorRoundTrip ==
    /\ \A k \in 1..Len(vcalls) :
        vcalls[k].op = "get" =>
            IF UpsertsBefore(k) = {}
            THEN vcalls[k].reply = None
            ELSE LET last == vcalls[CHOOSE j \in UpsertsBefore(k) :
                                        \A i \in UpsertsBefore(k) : i <= j]
                 IN vcalls[k].reply = IF vcalls[k].fingerprint = last.fingerprint
                                      THEN Some(last.data) ELSE None
    /\ \A k \in 1..Len(vcalls) :
        (vcalls[k].op = "upsert"
            /\ \A j \in (k + 1)..Len(vcalls) :
                   ~(vcalls[j].op = "upsert" /\ vcalls[j].file_id = vcalls[k].file_id)) =>
            \E r \in db_vectors :
                /\ r.file_id = vcalls[k].file_id
                /\ as_u64(r.fingerprint) = vcalls[k].fingerprint
                /\ FromBlob(r.vector_blob) = vcalls[k].data
    /\ \A r \in db_vectors : -(U64_MOD \div 2) <= r.fingerprint /\ r.fingerprint < U64_MOD \div 2
    /\ \A r1, r2 \in db_vectors : r1.file_id = r2.file_id => r1 = r2

\* a vector stored under a fingerprint of the upper half was replaced under
\* another one and then read back
C38_Witness ==
    /\ Len(vcalls) = 3
    /\ vcalls[1].op = "upsert" /\ vcalls[2].op = "upsert" /\ vcalls[3].op = "get"
    /\ vcalls[1].file_id = vcalls[3].file_id /\ vcalls[2].file_id = vcalls[3].file_id
    /\ vcalls[1].fingerprint = U64_MOD - 1
    /\ vcalls[2].fingerprint = U64_MOD \div 2
    /\ vcalls[1].data # vcalls[2].data
    /\ vcalls[3].fingerprint = vcalls[2].fingerprint
    /\ vcalls[3].reply = Some(vcalls[2].data)

\* a fingerprint of the upper half does not answer for another one
C38_MissWitness ==
    /\ Len(vcalls) = 2
    /\ vcalls[1].op = "upsert" /\ vcalls[2].op = "get"
    /\ vcalls[1].file_id = vcalls[2].file_id
    /\ vcalls[1].fingerprint = U64_MOD - 1
    /\ vcalls[2].fingerprint = U64_MOD \div 2
    /\ vcalls[2].reply = None

(***************************************************************************)
(* reference_loader.rs 24-153: load_from_csv_with_progress, one action per *)
(* record of the file                                                      *)
(***************************************************************************)
MaxRows == 2
MaxLoads == 2

\* everything but the loader
loader_frame == <<config_vars, pool, vcalls, app, poller, call, worker, encoded, scored,
                  cache_vars, db_vars, loop_vars, run_vars, progress_vars, pc, result,
                  panicked, runs, edits>>

\* an insert that reports a change for every row
session_insert_always(table, hh_id) == [changed |-> TRUE, table |-> table \cup {hh_id}]

\* ReferenceImportSession::insert: INSERT OR IGNORE on the UNIQUE hh_id, and
\* whether a row was added
session_insert(table, hh_id) == [changed |-> hh_id \notin table, table |-> table \cup {hh_id}]

\* the records of a file: a value of the hh_id column, or a record the reader
\* fails on.  (A record without the column is such a failure: the reader is
\* not flexible, so record.get always finds the column.)
Spaced == <<32, 97, 32>>
Blank == <<32>>
Letter == <<97>>
Other == <<98>>
CsvRecords == {[kind |-> "record", raw |-> raw] : raw \in {Letter, Spaced, Blank, Other}}
                  \cup {[kind |-> "error", raw |-> <<>>]}
CsvFiles == UNION {[1..n -> CsvRecords] : n \in 0..MaxRows}

LoadFailures == {"none", "metadata", "open", "headers", "column", "start"}

\* lines 34-77: the file is opened, the header row read, the transaction
\* started
LoadBegin(rows, fail) ==
    /\ loader.pc = "idle"
    /\ loader.loads < MaxLoads
    /\ loader' =
         IF fail # "none"
         THEN [loader EXCEPT !.pc = "returned", !.loads = loader.loads + 1,
                             !.before = loader.reference_ids, !.report = Err(fail)]
         ELSE [loader EXCEPT !.pc = "reading", !.loads = loader.loads + 1,
                             !.file = rows, !.rows = rows,
                             !.before = loader.reference_ids,
                             !.tx = loader.reference_ids,
                             !.processed = 0, !.inserted = 0, !.skipped = 0,
                             !.errors = <<>>, !.line_index = 0, !.report = <<>>]
    /\ UNCHANGED loader_frame

\* lines 81-119: one pass of the loop on a record
ReadRecord(insert_fails) ==
    /\ loader.pc = "reading"
    /\ loader.rows # <<>>
    /\ LET record == Head(loader.rows)
           hh_id == Trim(record.raw)
           display_line == loader.line_index + 2
           ins == session_insert(loader.tx, hh_id)
           read == [loader EXCEPT !.rows = Tail(loader.rows),
                                  !.processed = loader.processed + 1,
                                  !.line_index = loader.line_index + 1]
           skip(l, msg) == [l EXCEPT !.skipped = l.skipped + 1,
                                     !.errors = Append(l.errors, <<display_line, msg>>)]
       IN loader' =
            IF record.kind = "error" THEN skip(read, "read")
            ELSE IF hh_id = <<>> THEN skip(read, "Empty hh_id value")
            ELSE IF insert_fails THEN skip(read, "insert")
            ELSE IF ins.changed
            THEN [read EXCEPT !.inserted = read.inserted + 1, !.tx = ins.table]
            ELSE [read EXCEPT !.skipped = read.skipped + 1]
    /\ UNCHANGED loader_frame

\* lines 81, 111 and 129-152: the reader is at the end of the file
LoadEnd(commit_fails) ==
    /\ loader.pc = "reading"
    /\ loader.rows = <<>>
    /\ loader' =
         IF loader.processed = 0
         THEN [loader EXCEPT !.pc = "returned", !.tx = loader.reference_ids,
                             !.report = Err("CSV file did not contain any records")]
         ELSE IF commit_fails
         THEN [loader EXCEPT !.pc = "returned", !.tx = loader.reference_ids,
                             !.report = Err("Failed to commit reference IDs")]
         ELSE [loader EXCEPT !.pc = "returned", !.reference_ids = loader.tx,
                             !.report = [ok |-> TRUE, processed |-> loader.processed,
                                         inserted |-> loader.inserted,
                                         skipped |-> loader.skipped,
                                         errors |-> loader.errors]]
    /\ UNCHANGED loader_frame

\* the caller takes the report; the locals of the call are gone
LoadReturn ==
    /\ loader.pc = "returned"
    /\ loader.loads < MaxLoads
    /\ loader' = [LoaderNew EXCEPT !.reference_ids = loader.reference_ids,
                                   !.loads = loader.loads]
    /\ UNCHANGED loader_frame

NextLoader ==
    \/ \E rows \in CsvFiles : LoadBegin(rows, "none")
    \/ \E fail \in LoadFailures \ {"none"} : LoadBegin(<<>>, fail)
    \/ \E insert_fails \in BOOLEAN : ReadRecord(insert_fails)
    \/ \E commit_fails \in BOOLEAN : LoadEnd(commit_fails)
    \/ LoadReturn

SpecLoader == InitDispatch /\ [][NextLoader]_vars

\* the identifiers the records of the file can add
Candidates ==
    {Trim(loader.file[k].raw) : k \in {j \in 1..Len(loader.file) : loader.file[j].kind = "record"}}
        \ ({<<>>} \cup loader.before)

\* C39: every report the loader returns has processed = inserted + skipped
\* and no more errors than skipped rows; a row is counted as inserted only if
\* its trimmed identifier was not empty and not stored already; a file without
\* data records returns an error and commits nothing; and the identifiers
\* inserted become visible together, at the commit of a successful load.
C39_LoadReport ==
    /\ loader.pc = "reading" =>
           /\ loader.reference_ids = loader.before
           /\ loader.processed = loader.inserted + loader.skipped
           /\ loader.inserted = Cardinality(loader.tx \ loader.before)
    /\ (loader.pc = "returned" /\ ~loader.report.ok) =>
           loader.reference_ids = loader.before
    /\ (loader.pc = "returned" /\ loader.file = <<>>) =>
           /\ ~loader.report.ok
           /\ loader.report.error # "Failed to commit reference IDs"
    /\ (loader.pc = "returned" /\ loader.report.ok) =>
           /\ loader.report.processed = loader.report.inserted + loader.report.skipped
           /\ Len(loader.report.errors) <= loader.report.skipped
           /\ loader.report.processed = Len(loader.file)
           /\ loader.report.processed >= 1
           /\ loader.report.inserted = Cardinality(loader.reference_ids \ loader.before)
           /\ loader.reference_ids \ loader.before \subseteq Candidates
           /\ loader.before \subseteq loader.reference_ids

\* a second load whose two records name one new identifier, once with
\* spaces around it: one row inserted, one skipped without an error
C39_Witness ==
    /\ loader.pc = "returned" /\ loader.report.ok
    /\ loader.loads = 2
    /\ loader.before # {}
    /\ loader.report.processed = 2
    /\ loader.report.inserted = 1
    /\ loader.report.skipped = 1
    /\ loader.report.errors = <<>>

\* a file of records that all fail: the report is Ok with nothing inserted
C39_SkippedWitness ==
    /\ loader.pc = "returned" /\ loader.report.ok
    /\ loader.report.inserted = 0
    /\ Len(loader.report.errors) = 2

\* ---------------------------------------------------------------------------
\* The front-end (gui.rs): the AppState machine, the four background
\* operations and the channel between them.  What an operation computes is
\* modelled with the engines above; here a thread is the sequence of messages
\* it sends.
\* ---------------------------------------------------------------------------

\* background operations started in one session
MaxOps == 2

\* progress messages one operation can send
MaxProgress == 1

app_frame == <<config_vars, pool, vcalls, loader, poller, call, worker, encoded, scored,
               cache_vars, db_vars, loop_vars, run_vars, progress_vars, pc, result,
               panicked, runs, edits>>

\* the AppState a start function sets names the operation
Operations == {"Scanning", "LoadingReferenceIds", "Matching", "Searching"}

\* the progress message of an operation's callback; a search has none
progress_tag(op) ==
    CASE op = "Scanning" -> "ScanProgress"
      [] op = "LoadingReferenceIds" -> "ReferenceIdsProgress"
      [] op = "Matching" -> "MatchingProgress"

\* the message a thread sends when its operation succeeded
complete_tag(op) ==
    CASE op = "Scanning" -> "ScanComplete"
      [] op = "LoadingReferenceIds" -> "ReferenceIdsLoaded"
      [] op = "Matching" -> "MatchingComplete"
      [] op = "Searching" -> "SearchComplete"

\* an error path that sends a message which does not end the operation
error_tag_notice(op) == "MatchingEngineNotice"

\* the message a thread sends on each of its error paths
error_tag(op) ==
    CASE op = "Scanning" -> "ScanError"
      [] op = "LoadingReferenceIds" -> "ReferenceIdsError"
      [] op = "Matching" -> "MatchingError"
      [] op = "Searching" -> "SearchError"

\* completion and error messages
TerminalTags ==
    {"ScanComplete", "ScanError", "ReferenceIdsLoaded", "ReferenceIdsError",
     "MatchingComplete", "MatchingError", "SearchComplete", "SearchError"}

\* thread::spawn(move || ...): the closure captures the sender and, for a
\* match, prefer_gpu.  left is the work still to do, one progress message per
\* item; terminals and late record what the thread has sent so far
spawn(a, op, left) ==
    [a EXCEPT !.threads = Append(@,
        [op |-> op, pc |-> "spawned", left |-> left,
         prefer_gpu |-> op = "Matching" /\ a.use_gpu_matcher /\ a.gpu_available,
         terminals |-> 0, late |-> FALSE])]

\* the closure has returned or unwound: its captured values are gone
returned(th, at) == [th EXCEPT !.pc = at, !.left = 0, !.prefer_gpu = FALSE]

\* sender.send(msg) by thread t
send(a, t, tag, count) ==
    [a EXCEPT !.channel = Append(@, [tag |-> tag, thread |-> t, count |-> count]),
              !.threads[t].terminals = @ + (IF tag \in TerminalTags THEN 1 ELSE 0),
              !.threads[t].late = @ \/ a.threads[t].terminals > 0]

\* Database::new at the head of every closure and, for a match, the id list
\* and create_engine: an error is reported and the closure returns; a GPU
\* engine that cannot be created falls back to the CPU engine with a notice
ThreadOpen(t, outcome) ==
    /\ t \in DOMAIN app.threads
    /\ app.threads[t].pc = "spawned"
    /\ outcome = "fallback" => app.threads[t].prefer_gpu
    /\ LET op == app.threads[t].op
           sent == CASE outcome = "error" -> send(app, t, error_tag(op), 0)
                     [] outcome = "fallback" -> send(app, t, "MatchingEngineNotice", 0)
                     [] outcome = "ok" -> app
       IN app' = [sent EXCEPT !.threads[t] = IF outcome = "error" THEN returned(@, "returned")
                                             ELSE [@ EXCEPT !.pc = "work"]]
    /\ UNCHANGED app_frame

\* the progress callback, called on the operation's thread before
\* scan_and_store, load_from_csv_with_progress or match_and_store returns
ThreadProgress(t) ==
    /\ t \in DOMAIN app.threads
    /\ app.threads[t].pc = "work"
    /\ app.threads[t].op # "Searching"
    /\ app.threads[t].left > 0
    /\ app' = [send(app, t, progress_tag(app.threads[t].op), 0) EXCEPT !.threads[t].left = @ - 1]
    /\ UNCHANGED app_frame

\* the match on the operation's result: one completion or one error message,
\* the last statement of the closure.  count is the total a scan or a load
\* reports
ThreadFinish(t, ok, count) ==
    /\ t \in DOMAIN app.threads
    /\ app.threads[t].pc = "work"
    /\ ok => app.threads[t].left = 0 \/ app.threads[t].op = "Searching"
    /\ LET op == app.threads[t].op
           tag == IF ok THEN complete_tag(op) ELSE error_tag(op)
           total == IF ok /\ op \in {"Scanning", "LoadingReferenceIds"} THEN count ELSE 0
       IN app' = [send(app, t, tag, total) EXCEPT !.threads[t] = returned(@, "returned")]
    /\ UNCHANGED app_frame

\* the closure's values (the engine, the connection) are dropped and the
\* thread ends
ThreadExit(t) ==
    /\ t \in DOMAIN app.threads
    /\ app.threads[t].pc = "returned"
    /\ app' = [app EXCEPT !.threads[t].pc = "exited"]
    /\ UNCHANGED app_frame

\* a panic anywhere in the closure: the thread unwinds and sends nothing
ThreadPanic(t) ==
    /\ t \in DOMAIN app.threads
    /\ app.threads[t].pc \in {"spawned", "work"}
    /\ app' = [app EXCEPT !.threads[t] = returned(@, "panicked")]
    /\ UNCHANGED app_frame

\* one arm of the match in process_background_messages
process_message(a, msg) ==
    CASE msg.tag = "ScanComplete" ->
            [a EXCEPT !.state = "Idle", !.file_count = msg.count]
      [] msg.tag = "ReferenceIdsLoaded" ->
            [a EXCEPT !.state = "Idle", !.reference_id_count = msg.count]
      [] msg.tag \in {"MatchingComplete", "SearchComplete"} ->
            [a EXCEPT !.state = "Idle"]
      [] msg.tag \in {"ScanError", "ReferenceIdsError", "MatchingError", "SearchError"} ->
            [a EXCEPT !.state = "Idle"]
      [] msg.tag = "MatchingEngineNotice" ->
            [a EXCEPT !.gpu_available = FALSE, !.use_gpu_matcher = FALSE]
      [] msg.tag \in {"ScanProgress", "ReferenceIdsProgress", "MatchingProgress"} -> a

\* one turn of the while-let loop at the head of update: try_recv returned a
\* message
Recv ==
    /\ app.channel # <<>>
    /\ app' = [process_message(app, Head(app.channel)) EXCEPT !.channel = Tail(app.channel)]
    /\ UNCHANGED app_frame

\* a start that ignores the state
can_scan_busy(a) == a.folder_path /\ a.db

\* the conditions under which update enables the buttons
can_load(a) == a.state = "Idle" /\ a.csv_path /\ a.db
can_scan(a) == a.state = "Idle" /\ a.folder_path /\ a.db
can_match(a) == a.state = "Idle" /\ a.reference_id_count > 0 /\ a.file_count > 0 /\ a.db
can_clear(a) == a.state = "Idle" /\ a.db
can_search(a) == a.state = "Idle" /\ a.search_input /\ a.db

\* the start functions: their own early returns, the new state, the thread
load_reference_ids(a, left) ==
    IF ~a.csv_path \/ ~a.db THEN a
    ELSE spawn([a EXCEPT !.state = "LoadingReferenceIds"], "LoadingReferenceIds", left)

start_scanning(a, left) ==
    IF ~a.folder_path \/ ~a.db THEN a
    ELSE spawn([a EXCEPT !.state = "Scanning"], "Scanning", left)

search_household_id(a) ==
    IF ~a.search_input \/ ~a.db THEN a
    ELSE spawn([a EXCEPT !.state = "Searching"], "Searching", 0)

start_matching(a, left) ==
    IF a.reference_id_count = 0 \/ a.file_count = 0 \/ ~a.db THEN a
    ELSE spawn([a EXCEPT !.state = "Matching"], "Matching", left)

\* clear_cache on the front-end's own connection; a failure leaves the count
clear_cache(a, ok) ==
    IF a.db /\ ok THEN [a EXCEPT !.file_count = 0] ELSE a

\* The widgets of one frame run after the loop found the channel empty.  A
\* message sent between the two is not read by the widgets, so the frame is
\* taken at the moment the loop ends.  At most one widget is clicked.
Widgets == app.channel = <<>>

SelectFolder ==
    /\ Widgets
    /\ app' = [app EXCEPT !.folder_path = TRUE]
    /\ UNCHANGED app_frame

SelectCsv ==
    /\ Widgets
    /\ app' = [app EXCEPT !.csv_path = TRUE]
    /\ UNCHANGED app_frame

EditSearchInput(filled) ==
    /\ Widgets
    /\ app' = [app EXCEPT !.search_input = filled]
    /\ UNCHANGED app_frame

ToggleGpu ==
    /\ Widgets
    /\ app.gpu_available
    /\ app' = [app EXCEPT !.use_gpu_matcher = ~@]
    /\ UNCHANGED app_frame

ClickLoad(left) ==
    /\ Widgets
    /\ Len(app.threads) < MaxOps
    /\ can_load(app)
    /\ app' = load_reference_ids(app, left)
    /\ UNCHANGED app_frame

ClickScan(left) ==
    /\ Widgets
    /\ Len(app.threads) < MaxOps
    /\ can_scan(app)
    /\ app' = start_scanning(app, left)
    /\ UNCHANGED app_frame

ClickMatch(left) ==
    /\ Widgets
    /\ Len(app.threads) < MaxOps
    /\ can_match(app)
    /\ app' = start_matching(app, left)
    /\ UNCHANGED app_frame

ClickSearch ==
    /\ Widgets
    /\ Len(app.threads) < MaxOps
    /\ can_search(app)
    /\ app' = search_household_id(app)
    /\ UNCHANGED app_frame

ClickClear(ok) ==
    /\ Widgets
    /\ can_clear(app)
    /\ app' = clear_cache(app, ok)
    /\ UNCHANGED app_frame

\* the steps of the background threads that return
ThreadRun ==
    \E t \in 1..MaxOps :
        \/ \E outcome \in {"ok", "error", "fallback"} : ThreadOpen(t, outcome)
        \/ ThreadProgress(t)
        \/ \E ok \in BOOLEAN, count \in 0..1 : ThreadFinish(t, ok, count)
        \/ ThreadExit(t)

NextApp ==
    \/ \E t \in 1..MaxOps, outcome \in {"ok", "error", "fallback"} : ThreadOpen(t, outcome)
    \/ \E t \in 1..MaxOps : ThreadProgress(t)
    \/ \E t \in 1..MaxOps, ok \in BOOLEAN, count \in 0..1 : ThreadFinish(t, ok, count)
    \/ \E t \in 1..MaxOps : ThreadExit(t)
    \/ \E t \in 1..MaxOps : ThreadPanic(t)
    \/ Recv
    \/ SelectFolder
    \/ SelectCsv
    \/ \E filled \in BOOLEAN : EditSearchInput(filled)
    \/ ToggleGpu
    \/ \E left \in 0..MaxProgress : ClickLoad(left)
    \/ \E left \in 0..MaxProgress : ClickScan(left)
    \/ \E left \in 0..MaxProgress : ClickMatch(left)
    \/ ClickSearch
    \/ \E ok \in BOOLEAN : ClickClear(ok)

\* the session starts over a cache.db as an earlier session left it, or
\* without one
InitApp ==
    /\ EngineParts(UnitTiles, 134217728, TRUE)
    /\ \E db_ok \in BOOLEAN, reference_id_count \in 0..1, file_count \in 0..1 :
        app = AppDefault(db_ok, reference_id_count, file_count)
    /\ db_files = {}
    /\ db_next_id = 1
    /\ db_vectors = {}
    /\ db_matches = {}
    /\ db_match_rows = <<>>
    /\ IdleRun
    /\ runs = 0
    /\ edits = 0

SpecApp == InitApp /\ [][NextApp]_vars

\* Threads are scheduled, and update runs again: while the state is not Idle
\* it asks for a repaint every 100 ms, and every message handled asks for one.
SpecAppFair == SpecApp /\ WF_vars(ThreadRun) /\ WF_vars(Recv)

\* the threads that have not yet sent their last message
Running(a) == {t \in DOMAIN a.threads : a.threads[t].pc \in {"spawned", "work"}}

\* the terminal messages of thread t still on the channel
Pending(a, t) ==
    {i \in DOMAIN a.channel : a.channel[i].thread = t /\ a.channel[i].tag \in TerminalTags}

Panicked(a) == \E t \in DOMAIN a.threads : a.threads[t].pc = "panicked"

\* what every thread has sent: nothing after a terminal message, one terminal
\* message once its closure has returned and none before; and the state is
\* Idle exactly when the last operation's terminal message has been handled
C36_Messages ==
    /\ \A t \in DOMAIN app.threads :
        LET th == app.threads[t] IN
        /\ ~th.late
        /\ th.pc \in {"returned", "exited"} => th.terminals = 1
        /\ th.pc \in {"spawned", "work", "panicked"} => th.terminals = 0
        /\ Pending(app, t) # {} =>
              \A i \in DOMAIN app.channel :
                  app.channel[i].thread = t => i <= CHOOSE j \in Pending(app, t) : TRUE
    /\ app.threads = <<>> => app.state = "Idle"
    /\ app.threads # <<>> =>
        LET last == Len(app.threads) IN
        app.state = "Idle" <=> app.threads[last].terminals = 1 /\ Pending(app, last) = {}

C36_ChannelWitness ==
    /\ app.state = "Matching"
    /\ Len(app.channel) = 3
    /\ app.channel[1].tag = "MatchingEngineNotice"
    /\ app.channel[2].tag = "MatchingProgress"
    /\ app.channel[3].tag = "MatchingComplete"

\* at most one operation at work, the state names it, and the Clear Cache
\* button cannot be clicked meanwhile
C37_OneRunning ==
    /\ Cardinality(Running(app)) <= 1
    /\ (ENABLED (\E ok \in BOOLEAN : ClickClear(ok))) => app.state = "Idle" /\ Running(app) = {}
    /\ \A t \in Running(app) : t = Len(app.threads) /\ app.state = app.threads[t].op

\* a start happens in Idle and leaves it for the operation's state
C37_Start ==
    Len(app'.threads) > Len(app.threads) =>
        /\ app.state = "Idle"
        /\ Running(app) = {}
        /\ app'.state = app'.threads[Len(app'.threads)].op

\* Idle is entered only by handling the terminal message of the operation
\* started last
C37_Return ==
    app.state # "Idle" /\ app'.state = "Idle" =>
        /\ app.channel # <<>>
        /\ app'.channel = Tail(app.channel)
        /\ Head(app.channel).tag \in {complete_tag(app.state), error_tag(app.state)}
        /\ Head(app.channel).thread = Len(app.threads)

\* C37: at most one background operation is running at any time and
\* clear-cache never runs while one is: an operation starts only in Idle,
\* the start leaves Idle in the same step, and the state returns to Idle only
\* on that operation's terminal message
C37_OneOperation == []C37_OneRunning /\ [][C37_Start /\ C37_Return]_vars

\* a second operation is at work after a scan was started and handled
C37_Witness ==
    /\ Len(app.threads) = 2
    /\ app.threads[1].pc \in {"returned", "exited"}
    /\ app.threads[2].pc = "work"
    /\ app.state = app.threads[2].op
    /\ app.file_count = 0
    /\ app.threads[1].op = "Scanning"
====
